---- MODULE Spec2Model ----
(***************************************************************************)
(* State-machine model of the site-capture crawler.  The repository holds  *)
(* five revisions of capture.mjs; the model carries a `variant' field in   *)
(* its configuration and follows each revision's own code:                 *)
(*   "basic"   src/unnamed/part_001 lines   1-179                          *)
(*   "dedup"   src/unnamed/part_001 lines 180-506  (layout deduplication)  *)
(*   "safe"    src/capture.mjs                     (robots, skip, retries) *)
(*   "sample"  src/unnamed/part_000                (one sample per category)*)
(*   "stable"  src/unnamed/part_002                (sample + waitStable)   *)
(*                                                                         *)
(* Strings are sequences of atoms; an atom is a chunk of characters that   *)
(* no operation of the program ever splits ("blog", "/", "https:").        *)
(* startsWith, RegExp.test, split("/") and concatenation are computed on   *)
(* these sequences the way the code computes them on characters.           *)
(***************************************************************************)
EXTENDS Integers, Sequences, FiniteSets, TLC

\* ------------------------------------------------------------- bounds
MaxPagesBound == 3      \* MAX_PAGES ranges over 1..MaxPagesBound
MaxDepthBound == 1      \* MAX_DEPTH ranges over 0..MaxDepthBound
MaxRetries    == 1      \* RETRIES of the runs checked

\* ------------------------------------------------------------ strings
\* String.prototype.startsWith
StartsWith(s, p) == Len(p) <= Len(s) /\ SubSeq(s, 1, Len(p)) = p

\* String.prototype.toLowerCase on one atom
LowerAtom(a) == CASE a = "Page" -> "page"
                  [] a = "Blog" -> "blog"
                  [] OTHER      -> a

ToLowerCase(s) == [i \in 1..Len(s) |-> LowerAtom(s[i])]

\* new RegExp(p, "i").test(s) for a pattern p without metacharacters:
\* p occurs in s, letter case ignored.
RegExpTestI(p, s) ==
  \E i \in 0..(Len(s) - Len(p)) :
     SubSeq(ToLowerCase(s), i + 1, i + Len(p)) = ToLowerCase(p)

\* pathname.split("/").filter(Boolean): the non-empty segments of a path.
RECURSIVE SplitFrom(_, _, _)
SplitFrom(s, i, cur) ==
  IF i > Len(s)
    THEN (IF cur = <<>> THEN <<>> ELSE <<cur>>)
    ELSE IF s[i] = "/"
           THEN (IF cur = <<>> THEN <<>> ELSE <<cur>>) \o SplitFrom(s, i + 1, <<>>)
           ELSE SplitFrom(s, i + 1, Append(cur, s[i]))

SplitSegments(pathname) == SplitFrom(pathname, 1, <<>>)

\* --------------------------------------------------------------- URLs
\* A URL string in parsed form.  scheme is the protocol with its colon
\* (<<>> for a relative reference), path the path as written (<<>> when the
\* string has none, as in "https://ex.com"), frag the fragment with its "#"
\* (<<>> when there is none).
Url(scheme, host, path, frag) ==
  [scheme |-> scheme, host |-> host, path |-> path, frag |-> frag]

Null == [scheme |-> <<"null">>, host |-> <<>>, path |-> <<>>, frag |-> <<>>]

\* new URL(u) throws on these: a relative reference, or an invalid host.
ParsesAbs(u) == u.scheme # <<>> /\ u.host # <<"[">> /\ u # Null

\* URL.pathname: an http(s) URL without a path has pathname "/".
Pathname(u) ==
  IF u.path = <<>> /\ u.scheme \in {<<"http:">>, <<"https:">>} THEN <<"/">> ELSE u.path

\* URL.toString()
Href(u) ==
  u.scheme \o (IF u.host = <<>> THEN <<>> ELSE <<"//">> \o u.host) \o Pathname(u) \o u.frag

\* The string a URL record stands for, as written (a seed is never serialized).
Text(u) ==
  u.scheme \o (IF u.host = <<>> THEN <<>> ELSE <<"//">> \o u.host) \o u.path \o u.frag

\* new URL(raw, base): throws when raw is invalid, or relative with a base
\* that does not parse.  A relative reference is a path-absolute one
\* ("/x", "/x#f") or a fragment-only one ("#f").
Resolves(raw, base) ==
  /\ raw.host # <<"[">>
  /\ raw.scheme # <<>> \/ ParsesAbs(base)

Resolve(raw, base) ==
  IF raw.scheme # <<>>
    THEN raw
    ELSE Url(base.scheme, base.host,
             IF raw.path = <<>> THEN Pathname(base) ELSE raw.path, raw.frag)

\* A serialization that keeps the fragment.
KeepFragment(u) == Url(u.scheme, u.host, Pathname(u), u.frag)

\* s.replace(/#.*$/, "") on a serialized URL: everything from the first "#".
StripFragment(u) == Url(u.scheme, u.host, Pathname(u), <<>>)

normalizeUrl(u, b) == IF Resolves(u, b) THEN StripFragment(Resolve(u, b)) ELSE Null

\* ------------------------------------------------------ configuration
VARIABLES
  cfg,          \* the environment variables of the run, read once (immutable)
  pc,           \* position of main(): robots, sitemap, loop, nav, settle, harvest, finish, done, aborted
  robots,       \* { disallow, delay } as loadRobots returned it
  waitBetween,  \* WAIT_BETWEEN_MS (a `let': raised by the robots crawl delay)
  queue,        \* the frontier: sequence of { start, url, depth }
  visited,      \* Set of URL strings
  visitedCount, \* the counter of the "basic" revision
  sampleTaken,  \* Map category -> boolean
  seenLayouts,  \* Set of layout hashes
  captured,     \* the manifest items, in order
  cur,          \* the task taken from the queue
  dev,          \* index in contexts of the device being visited
  attempt,      \* the retry loop's counter
  pageAt,       \* per context: the URL whose document its page holds
  manifestWrites, \* how many times manifest.json was written
  hist,         \* history of the run (observations only; no action reads it)
  sweep         \* the scroll sweep of autoScroll inside the page

VARIANTS == {"basic", "dedup", "safe", "sample", "stable"}

variant                == cfg.variant
START_URLS             == cfg.START_URLS
DEVICES_RAW            == cfg.DEVICES_RAW
SAME_HOST_ONLY         == cfg.SAME_HOST_ONLY
PATH_PREFIX_MODE       == cfg.PATH_PREFIX_MODE
MAX_DEPTH              == cfg.MAX_DEPTH
MAX_PAGES              == cfg.MAX_PAGES
RESPECT_ROBOTS         == cfg.RESPECT_ROBOTS
SITEMAP_URL            == cfg.SITEMAP_URL
RETRIES                == cfg.RETRIES
SKIP_URL_PATTERNS      == cfg.SKIP_URL_PATTERNS
SAMPLE_DETAIL_ALLOW    == cfg.SAMPLE_DETAIL_ALLOW
SAMPLE_DETAIL_PATTERNS == cfg.SAMPLE_DETAIL_PATTERNS
ALWAYS_SHOOT_ON_TIMEOUT == cfg.ALWAYS_SHOOT_ON_TIMEOUT
LAYOUT_DEDUP           == cfg.LAYOUT_DEDUP
LAYOUT_IGNORE_URL_PATTERNS == cfg.LAYOUT_IGNORE_URL_PATTERNS

\* ------------------------------------------------------------- robots
NoRobots == [disallow |-> <<>>, delay |-> 0]

\* disallow.some(rule => rule && pathname.startsWith(rule))
blockedByRobots(pathname, disallow) ==
  \E i \in 1..Len(disallow) : disallow[i] # <<>> /\ StartsWith(pathname, disallow[i])

\* ------------------------------------------------ skip / sample policy
NoCategory == <<"null">>

ListingKeywords ==
  { <<"page">>, <<"category">>, <<"categories">>, <<"tag">>, <<"tags">>, <<"archive">>,
    <<"archives">>, <<"topics">>, <<"topic">>, <<"label">>, <<"labels">>, <<"feed">>,
    <<"index">> }

getMatchedCategory(pathname) ==
  LET parts == SplitSegments(pathname)
      seg   == IF parts = <<>> THEN <<>> ELSE parts[1]
  IN  IF seg \in SAMPLE_DETAIL_PATTERNS THEN seg ELSE NoCategory

\* A listing test that knows the category root only, not the keywords.
isListingRootOnly(pathname, category) ==
  LET parts == SplitSegments(pathname)
  IN  Len(parts) = 0 \/ (parts[1] = category /\ Len(parts) = 1)

isListingPathAfterCategory(pathname, category) ==
  LET parts == SplitSegments(pathname)
  IN  IF Len(parts) = 0 THEN TRUE
      ELSE IF parts[1] # category THEN FALSE
      ELSE IF Len(parts) = 1 THEN TRUE
      ELSE ToLowerCase(parts[2]) \in ListingKeywords

\* An exception that is granted without marking the category as taken.
allowSampleWithoutMarking(urlObj, taken) ==
  LET cat == getMatchedCategory(Pathname(urlObj))
  IN  IF cat = NoCategory THEN [ret |-> FALSE, taken |-> taken]
      ELSE IF isListingPathAfterCategory(Pathname(urlObj), cat)
             THEN [ret |-> FALSE, taken |-> taken]
      ELSE IF cat \in DOMAIN taken /\ taken[cat] = FALSE
             THEN [ret |-> TRUE, taken |-> taken]
      ELSE [ret |-> FALSE, taken |-> taken]

\* Returns [ret, taken]: the boolean returned and the registry afterwards.
allowSampleDetailIfFirst(urlObj, taken) ==
  LET cat == getMatchedCategory(Pathname(urlObj))
  IN  IF cat = NoCategory THEN [ret |-> FALSE, taken |-> taken]
      ELSE IF isListingPathAfterCategory(Pathname(urlObj), cat)
             THEN [ret |-> FALSE, taken |-> taken]
      ELSE IF cat \in DOMAIN taken /\ taken[cat] = FALSE
             THEN [ret |-> TRUE, taken |-> [taken EXCEPT ![cat] = TRUE]]
      ELSE [ret |-> FALSE, taken |-> taken]

\* ---------------------------------------------------------- admission
\* SKIP_URL_PATTERNS.some(p => new RegExp(p, "i").test(targetUrl))
hitSkip(targetUrl) == \E p \in SKIP_URL_PATTERNS : RegExpTestI(p, Text(targetUrl))

HttpProtocols == {<<"http:">>, <<"https:">>}

\* A prefix test that lets every path through.
PrefixAny(t, s) == TRUE

\* The PATH_PREFIX_MODE === "start" test of every revision.
PrefixOk(t, s) ==
  LET sp     == Pathname(s)
      prefix == IF sp # <<>> /\ sp[Len(sp)] = "/" THEN sp ELSE sp \o <<"/">>
  IN  prefix = <<"/">> \/ StartsWith(Pathname(t) \o <<"/">>, prefix)

\* What a call of shouldVisit did: the value returned, the registry afterwards,
\* whether it threw, and the test that decided (for the history only).
Verdict(ret, taken, threw, why) ==
  [ret |-> ret, taken |-> taken, threw |-> threw, why |-> why]

\* shouldVisit of the "basic" revision: scope only, protocol last.
shouldVisitBasic(targetUrl, startUrl, rob, taken) ==
  IF ~ParsesAbs(targetUrl) \/ ~ParsesAbs(startUrl) THEN Verdict(FALSE, taken, TRUE, "parse")
  ELSE IF SAME_HOST_ONLY /\ targetUrl.host # startUrl.host
         THEN Verdict(FALSE, taken, FALSE, "host")
  ELSE IF PATH_PREFIX_MODE = "start" /\ ~PrefixOk(targetUrl, startUrl)
         THEN Verdict(FALSE, taken, FALSE, "prefix")
  ELSE Verdict(targetUrl.scheme \in HttpProtocols, taken, FALSE, "protocol")

\* shouldVisit of "safe" and "dedup": skip patterns first, robots last.
shouldVisitSafe(targetUrl, startUrl, rob, taken) ==
  IF hitSkip(targetUrl) THEN Verdict(FALSE, taken, FALSE, "skip")
  ELSE IF ~ParsesAbs(targetUrl) \/ ~ParsesAbs(startUrl) THEN Verdict(FALSE, taken, TRUE, "parse")
  ELSE IF targetUrl.scheme \notin HttpProtocols
         THEN Verdict(FALSE, taken, FALSE, "protocol")
  ELSE IF SAME_HOST_ONLY /\ targetUrl.host # startUrl.host
         THEN Verdict(FALSE, taken, FALSE, "host")
  ELSE IF PATH_PREFIX_MODE = "start" /\ ~PrefixOk(targetUrl, startUrl)
         THEN Verdict(FALSE, taken, FALSE, "prefix")
  ELSE IF RESPECT_ROBOTS /\ blockedByRobots(Pathname(targetUrl), rob.disallow)
         THEN Verdict(FALSE, taken, FALSE, "robots")
  ELSE Verdict(TRUE, taken, FALSE, "pass")

\* shouldVisit of "sample" and "stable": scope, then skip with the sample
\* exception, then robots.
\* The same tests with the skip pattern and its exception tried first.
shouldVisitSkipFirst(targetUrl, startUrl, rob, taken) ==
  IF ~ParsesAbs(targetUrl) \/ ~ParsesAbs(startUrl) THEN Verdict(FALSE, taken, TRUE, "parse")
  ELSE IF hitSkip(targetUrl) /\ SAMPLE_DETAIL_ALLOW
         THEN LET a == allowSampleDetailIfFirst(targetUrl, taken)
              IN  Verdict(a.ret, a.taken, FALSE, "sample")
  ELSE IF hitSkip(targetUrl) THEN Verdict(FALSE, taken, FALSE, "skip")
  ELSE IF targetUrl.scheme \notin HttpProtocols
         THEN Verdict(FALSE, taken, FALSE, "protocol")
  ELSE IF SAME_HOST_ONLY /\ targetUrl.host # startUrl.host
         THEN Verdict(FALSE, taken, FALSE, "host")
  ELSE IF PATH_PREFIX_MODE = "start" /\ ~PrefixOk(targetUrl, startUrl)
         THEN Verdict(FALSE, taken, FALSE, "prefix")
  ELSE IF RESPECT_ROBOTS /\ blockedByRobots(Pathname(targetUrl), rob.disallow)
         THEN Verdict(FALSE, taken, FALSE, "robots")
  ELSE Verdict(TRUE, taken, FALSE, "pass")

shouldVisitSample(targetUrl, startUrl, rob, taken) ==
  IF ~ParsesAbs(targetUrl) \/ ~ParsesAbs(startUrl) THEN Verdict(FALSE, taken, TRUE, "parse")
  ELSE IF targetUrl.scheme \notin HttpProtocols
         THEN Verdict(FALSE, taken, FALSE, "protocol")
  ELSE IF SAME_HOST_ONLY /\ targetUrl.host # startUrl.host
         THEN Verdict(FALSE, taken, FALSE, "host")
  ELSE IF PATH_PREFIX_MODE = "start" /\ ~PrefixOk(targetUrl, startUrl)
         THEN Verdict(FALSE, taken, FALSE, "prefix")
  ELSE IF hitSkip(targetUrl)
         THEN (IF SAMPLE_DETAIL_ALLOW
                 THEN LET a == allowSampleDetailIfFirst(targetUrl, taken)
                      IN  Verdict(a.ret, a.taken, FALSE, "sample")
                 ELSE Verdict(FALSE, taken, FALSE, "skip"))
  ELSE IF RESPECT_ROBOTS /\ blockedByRobots(Pathname(targetUrl), rob.disallow)
         THEN Verdict(FALSE, taken, FALSE, "robots")
  ELSE Verdict(TRUE, taken, FALSE, "pass")

shouldVisit(targetUrl, startUrl, rob, taken) ==
  CASE variant = "basic"              -> shouldVisitBasic(targetUrl, startUrl, rob, taken)
    [] variant \in {"safe", "dedup"}   -> shouldVisitSafe(targetUrl, startUrl, rob, taken)
    [] OTHER                          -> shouldVisitSample(targetUrl, startUrl, rob, taken)

\* ------------------------------------------------------------ devices
\* A DEVICES item is a string of atoms: words, " ", "x" and digit runs.
DigitAtoms == {"13", "375", "812", "900", "1440"}
SpaceAtoms == {" "}

PwDevices == { <<"iPhone", " ", "13">> }     \* the names playwright.devices knows

RECURSIVE SkipWhile(_, _, _)
SkipWhile(s, i, set) ==
  IF i <= Len(s) /\ s[i] \in set THEN SkipWhile(s, i + 1, set) ELSE i

\* /(\d+)\s*x\s*(\d+)/i matches s at atom i
WxHAt(s, i) ==
  /\ s[i] \in DigitAtoms
  /\ LET k == SkipWhile(s, SkipWhile(s, i, DigitAtoms), SpaceAtoms)
     IN  /\ k <= Len(s) /\ s[k] \in {"x", "X"}
         /\ LET l == SkipWhile(s, k + 1, SpaceAtoms)
            IN  l <= Len(s) /\ s[l] \in DigitAtoms

NoMatch == [w |-> <<>>, h |-> <<>>]

\* parseWxH: the leftmost match, or null
parseWxH(s) ==
  IF \E i \in 1..Len(s) : WxHAt(s, i)
    THEN LET i == CHOOSE j \in 1..Len(s) : WxHAt(s, j) /\ \A m \in 1..(j - 1) : ~WxHAt(s, m)
             j == SkipWhile(s, i, DigitAtoms)
             k == SkipWhile(s, j, SpaceAtoms)
             l == SkipWhile(s, k + 1, SpaceAtoms)
         IN  [w |-> SubSeq(s, i, j - 1), h |-> SubSeq(s, l, SkipWhile(s, l, DigitAtoms) - 1)]
    ELSE NoMatch

\* item.replace(/[^\dx]/gi, "")
KeepDigitsAndX(s) == SelectSeq(s, LAMBDA a : a \in DigitAtoms \cup {"x", "X"})

\* item.replace(/\s+/g, "_")
RECURSIVE SpacesToUnderscore(_)
SpacesToUnderscore(s) ==
  IF s = <<>> THEN <<>>
  ELSE IF s[1] \in SpaceAtoms
         THEN <<"_">> \o SpacesToUnderscore(SubSeq(s, SkipWhile(s, 1, SpaceAtoms), Len(s)))
         ELSE <<s[1]>> \o SpacesToUnderscore(Tail(s))

DefaultLabel == <<"Desktop", "_", "1440", "x", "900">>

\* The label resolveViewports gives one item ("safe", "sample", "stable", "dedup").
labelOf(item) ==
  IF item \in PwDevices THEN item
  ELSE LET wh == IF parseWxH(item) # NoMatch THEN parseWxH(item)
                 ELSE parseWxH(KeepDigitsAndX(item))
       IN  IF wh # NoMatch
             THEN (IF SpacesToUnderscore(item) # <<>> THEN SpacesToUnderscore(item)
                   ELSE wh.w \o <<"x">> \o wh.h)
             ELSE DefaultLabel

\* The label of the "basic" revision.
labelOfBasic(item) ==
  IF item \in PwDevices THEN item
  ELSE IF parseWxH(item) # NoMatch THEN parseWxH(item).w \o <<"x">> \o parseWxH(item).h
  ELSE IF parseWxH(KeepDigitsAndX(item)) # NoMatch THEN SpacesToUnderscore(item)
  ELSE DefaultLabel

resolveViewports(list) ==
  [i \in 1..Len(list) |-> IF variant = "basic" THEN labelOfBasic(list[i]) ELSE labelOf(list[i])]

\* contexts[i].label: one browsing context per configured device, in order.
contexts == resolveViewports(DEVICES_RAW)

\* ------------------------------------------------------- robots.txt
\* A robots.txt is a sequence of lines [key, val, num]; key is the field name
\* ("User-agent", "Disallow", "Crawl-delay"), val its trimmed value as a
\* string of atoms, num the digits a Crawl-delay value starts with.
RECURSIVE SectionsOf(_, _, _)
\* txt.split(/(?=User-agent:\s*)/i): a new section starts at every User-agent line.
SectionsOf(txt, i, sec) ==
  IF i > Len(txt)
    THEN (IF sec = <<>> THEN <<>> ELSE <<sec>>)
    ELSE IF txt[i].key = "User-agent"
           THEN (IF sec = <<>> THEN <<>> ELSE <<sec>>) \o SectionsOf(txt, i + 1, <<txt[i]>>)
           ELSE SectionsOf(txt, i + 1, Append(sec, txt[i]))

IsStarSection(sec) == \E i \in 1..Len(sec) : sec[i].key = "User-agent" /\ sec[i].val = <<"*">>

RobotsBlock(txt) ==
  LET sections == SectionsOf(txt, 1, <<>>)
  IN  IF \E i \in 1..Len(sections) : IsStarSection(sections[i])
        THEN sections[CHOOSE i \in 1..Len(sections) :
                        IsStarSection(sections[i]) /\ \A j \in 1..(i - 1) : ~IsStarSection(sections[j])]
        ELSE txt

Min(a, b) == IF a < b THEN a ELSE b
Max(a, b) == IF a > b THEN a ELSE b

\* What loadRobots returns for a response [status, body]: status "error"
\* (fetch threw), "notok" (res.ok false) or "ok" with the text of the document.
\* A loadRobots that forbids everything when robots.txt cannot be had.
loadRobotsClosed(resp) ==
  IF resp.status \in {"error", "notok"} THEN [disallow |-> << <<"/">> >>, delay |-> 0]
  ELSE LET block == RobotsBlock(resp.body)
           dis   == SelectSeq(block, LAMBDA l : l.key = "Disallow" /\ l.val # <<>>)
           del   == SelectSeq(block, LAMBDA l : l.key = "Crawl-delay")
       IN  [disallow |-> [i \in 1..Len(dis) |-> dis[i].val],
            delay    |-> IF del = <<>> THEN 0 ELSE Min(5000, del[1].num * 1000)]

\* A loadRobots that does not cap the delay.
loadRobotsUncapped(resp) ==
  IF resp.status \in {"error", "notok"} THEN NoRobots
  ELSE LET block == RobotsBlock(resp.body)
           dis   == SelectSeq(block, LAMBDA l : l.key = "Disallow" /\ l.val # <<>>)
           del   == SelectSeq(block, LAMBDA l : l.key = "Crawl-delay")
       IN  [disallow |-> [i \in 1..Len(dis) |-> dis[i].val],
            delay    |-> IF del = <<>> THEN 0 ELSE del[1].num * 1000]

loadRobots(resp) ==
  IF resp.status \in {"error", "notok"} THEN NoRobots
  ELSE LET block == RobotsBlock(resp.body)
           dis   == SelectSeq(block, LAMBDA l : l.key = "Disallow" /\ l.val # <<>>)
           del   == SelectSeq(block, LAMBDA l : l.key = "Crawl-delay")
       IN  [disallow |-> [i \in 1..Len(dis) |-> dis[i].val],
            delay    |-> IF del = <<>> THEN 0 ELSE Min(5000, del[1].num * 1000)]

\* --------------------------------------------------- layout fingerprint
\* A 32-bit value as two 16-bit halves <<high, low>>.
\* hashString (djb2): h = ((h << 5) + h) + c per character, then h >>> 0.
\* (h << 5) is 32 h modulo 2^32 and the sum stays below 2^53, so the result
\* is 33 h + c modulo 2^32 at every step.
HashStep(h, c) ==
  LET lo == 33 * h[2] + c
  IN  << (33 * h[1] + (lo \div 65536)) % 65536, lo % 65536 >>

RECURSIVE HashFrom(_, _, _)
HashFrom(s, i, h) == IF i > Len(s) THEN h ELSE HashFrom(s, i + 1, HashStep(h, s[i]))

\* 5381 = 0 * 65536 + 5381
hashString(s) == HashFrom(s, 1, <<0, 5381>>)

\* A layout check that never registers the hash it looked up.
shouldSkipWithoutRegistering(sig, url, seen) ==
  [ret |-> LAYOUT_DEDUP /\ hashString(sig) \in seen, seen |-> seen]

\* shouldSkipByLayout: [ret, seen] = the boolean returned, the set afterwards.
shouldSkipByLayout(sig, url, seen) ==
  IF ~LAYOUT_DEDUP THEN [ret |-> FALSE, seen |-> seen]
  ELSE IF \E p \in LAYOUT_IGNORE_URL_PATTERNS : p # <<>> /\ RegExpTestI(p, Text(url))
         THEN [ret |-> FALSE, seen |-> seen]
  ELSE IF hashString(sig) \in seen THEN [ret |-> TRUE, seen |-> seen]
  ELSE [ret |-> FALSE, seen |-> seen \cup {hashString(sig)}]

\* ------------------------------------------------- the site crawled
HTTPS == <<"https:">>
EX    == <<"ex.com">>
ELSEWHERE == <<"other.org">>

Page(path)      == Url(HTTPS, EX, path, <<>>)
Rel(path)       == Url(<<>>, <<>>, path, <<>>)
RelF(path, f)   == Url(<<>>, <<>>, path, <<"#", f>>)

Root     == Page(<<"/">>)
RootBare == Page(<<>>)                                  \* "https://ex.com"
RootTop  == Url(HTTPS, EX, <<"/">>, <<"#", "top">>)     \* "https://ex.com/#top"
About    == Page(<<"/", "about">>)
Blog     == Page(<<"/", "blog">>)
BlogP1   == Page(<<"/", "blog", "/", "p1">>)
BlogP2   == Page(<<"/", "blog", "/", "p2">>)
NewsN1   == Page(<<"/", "news", "/", "n1">>)
PrivateX == Page(<<"/", "private", "/", "x">>)
Elsewhere == Url(HTTPS, ELSEWHERE, <<"/">>, <<>>)
MailTo   == Url(<<"mailto:">>, <<>>, <<"me@ex.com">>, <<>>)
BadUrl   == Url(HTTPS, <<"[">>, <<>>, <<>>)             \* "https://[" does not parse
Blank    == Url(<<"about:">>, <<>>, <<"blank">>, <<>>)  \* a fresh page

\* The a[href] attributes of the document served for u, in document order.
SiteLinks(u) ==
  IF ~ParsesAbs(u) \/ u.host # EX THEN <<>>
  ELSE CASE Pathname(u) = <<"/">> ->
              << Rel(<<"/", "about">>), RelF(<<>>, "top"), Rel(<<"/", "blog", "/", "p1">>),
                 Rel(<<"/", "blog", "/", "p2">>), Rel(<<"/", "private", "/", "x">>),
                 Elsewhere, MailTo, BadUrl, RelF(<<"/", "about">>, "team") >>
         [] Pathname(u) = <<"/", "about">> ->
              << Rel(<<"/">>), Rel(<<"/", "news", "/", "n1">>), Rel(<<"/", "blog", "/", "p2">>) >>
         [] Pathname(u) = <<"/", "blog", "/", "p1">> ->
              << Rel(<<"/", "blog", "/", "p2">>), Rel(<<"/", "about">>) >>
         [] Pathname(u) = <<"/", "private", "/", "x">> ->
              << Rel(<<"/", "about">>) >>
         [] OTHER -> <<>>

\* What the server may answer for /robots.txt.
RobotsLine(k, v) == [key |-> k, val |-> v, num |-> 0]
CrawlDelay(n)    == [key |-> "Crawl-delay", val |-> <<>>, num |-> n]
Response(st, b)  == [status |-> st, body |-> b]

RobotsOff == Response("off", <<>>)
RobotsResponses ==
  { Response("error", <<>>), Response("notok", <<>>),
    Response("ok", << RobotsLine("User-agent", <<"*">>),
                      RobotsLine("Disallow", <<"/", "private">>), CrawlDelay(10) >>),
    Response("ok", << RobotsLine("User-agent", <<"otherbot">>), RobotsLine("Disallow", <<"/">>),
                      RobotsLine("User-agent", <<"*">>),
                      RobotsLine("Disallow", <<"/", "blog">>), RobotsLine("Disallow", <<>>) >>) }

\* What the sitemap fetch may give: an error, or the <loc> entries in order.
SitemapOff == Response("off", <<>>)
SitemapResponses ==
  { Response("error", <<>>), Response("ok", << BlogP1, BlogP2, About >>),
    Response("ok", << RootTop, NewsN1, BadUrl, About >>) }

\* The DEVICES items used.
Desktop == <<"Desktop", " ", "1440", "x", "900">>
IPhone  == <<"iPhone", " ", "13">>
Galaxy  == <<"Galaxy", " ", "S99">>       \* no preset of this name, no WxH in it

\* Layout signatures a page may show (strings of character codes).
Signatures == { <<65, 66>>, <<66, 33>>, <<67, 67>> }

\* ------------------------------------------------------------ history
NoTask  == [url |-> Null, depth |-> 0, visits |-> <<>>, harvested |-> FALSE]

HistInit ==
  [ admLog       |-> <<>>,    \* the sample-exception checks of detail URLs, in order (capped)
    sampleQueued |-> {},      \* URLs enqueued because the exception admitted them
    task         |-> NoTask,  \* the task being processed: its device visits so far
    prev         |-> NoTask,  \* the task processed before it (results and layout keys only)
    failures     |-> {},      \* kinds of failure met so far
    nav          |-> "none",  \* how the last navigation of the visit in progress ended
    tries        |-> 0,       \* gotoSmart calls of the visit in progress
    status       |-> 0,       \* HTTP status of its last response (0: none yet)
    retryAfter   |-> [kind |-> "absent", num |-> 0],  \* its retry-after header
    backoff      |-> 0,       \* ms slept after it in the retry loop
    dropped      |-> "none",  \* why the last step discarded a task, if it did
    sitemap      |-> "none",  \* how the sitemap load ended ("none": not yet run)
    lastFail     |-> "none" ] \* the failure met in the last step, if any

MaxLog == 3

\* The history after one call of shouldVisit(url, ...) that returned v.
IsDetail(url) ==
  /\ ParsesAbs(url)
  /\ getMatchedCategory(Pathname(url)) # NoCategory
  /\ ~isListingPathAfterCategory(Pathname(url), getMatchedCategory(Pathname(url)))

Observe(h, url, v) ==
  IF v.why = "sample" /\ IsDetail(url) /\ Len(h.admLog) < MaxLog
    THEN [h EXCEPT !.admLog = Append(@, [cat |-> getMatchedCategory(Pathname(url)),
                                          url |-> url, ret |-> v.ret])]
    ELSE h

ObserveQueued(h, url, v) ==
  IF v.why = "sample" /\ v.ret THEN [h EXCEPT !.sampleQueued = @ \cup {url}] ELSE h

Failed(h, kind) == [h EXCEPT !.failures = @ \cup {kind}, !.lastFail = kind, !.dropped = "none"]
Calm(h) == [h EXCEPT !.lastFail = "none", !.dropped = "none"]
Dropped(h, why) == [Calm(h) EXCEPT !.dropped = why]

\* ------------------------------------------------------------ actions
vars == << cfg, pc, robots, waitBetween, queue, visited, visitedCount, sampleTaken,
           seenLayouts, captured, cur, dev, attempt, pageAt, manifestWrites, hist, sweep >>

\* No sweep in progress.
NoSweep == [phase |-> "idle", rest |-> 0, pass |-> 0, grows |-> {}]

NoTaskYet == [start |-> Null, url |-> Null, depth |-> 0]

\* The state main() starts from, for a configuration c.
InitWith(c) ==
  /\ cfg = c
  /\ pc = "start"
  /\ robots = NoRobots
  /\ waitBetween = c.WAIT_BETWEEN_MS
  /\ queue = <<>>
  /\ visited = {}
  /\ visitedCount = 0
  /\ sampleTaken = [p \in c.SAMPLE_DETAIL_PATTERNS |-> FALSE]
  /\ seenLayouts = {}
  /\ captured = <<>>
  /\ cur = NoTaskYet
  /\ dev = 1
  /\ attempt = 0
  /\ pageAt = <<>>
  /\ manifestWrites = 0
  /\ hist = HistInit
  /\ sweep = NoSweep

\* The outcomes the environment may give a step: TRUE, and FALSE when the
\* run is subject to faults of that kind.
May(kind) == IF kind \in cfg.faults THEN BOOLEAN ELSE {TRUE}

\* Module load: START_URLS must not be empty (else the module throws).
\* The program without the test of START_URLS.length.
StartupUnchecked ==
  /\ pc = "start"
  /\ pc' = IF variant = "basic" THEN "seed" ELSE "robots"
  /\ hist' = Calm(hist)
  /\ UNCHANGED << sweep, cfg, robots, waitBetween, queue, visited, visitedCount, sampleTaken,
                  seenLayouts, captured, cur, dev, attempt, pageAt, manifestWrites >>

\* if (!START_URLS.length) throw new Error(...): the module stops loading;
\* otherwise the constants are read and main() is entered.
Startup ==
  /\ pc = "start"
  /\ pc' = IF START_URLS = <<>> THEN "aborted"
           ELSE IF variant = "basic" THEN "seed" ELSE "robots"
  /\ hist' = Calm(hist)
  /\ UNCHANGED << sweep, cfg, robots, waitBetween, queue, visited, visitedCount, sampleTaken,
                  seenLayouts, captured, cur, dev, attempt, pageAt, manifestWrites >>

\* const robots = RESPECT_ROBOTS ? await loadRobots(origin of START_URLS[0]) : default;
\* WAIT_BETWEEN_MS = Math.max(WAIT_BETWEEN_MS, robots.delay || 0)
LoadRobotsFrom(responses) ==
  /\ pc = "robots"
  /\ \E resp \in (IF RESPECT_ROBOTS THEN responses ELSE {RobotsOff}) :
       IF RESPECT_ROBOTS /\ ~ParsesAbs(START_URLS[1])
         THEN /\ pc' = "aborted"
              /\ hist' = Calm(hist)
              /\ UNCHANGED << robots, waitBetween >>
         ELSE LET r == IF resp.status = "off" THEN NoRobots ELSE loadRobots(resp)
              IN  /\ robots' = r
                  /\ waitBetween' = Max(waitBetween, r.delay)
                  /\ hist' = IF resp.status \in {"error", "notok"}
                               THEN Failed(hist, "robots") ELSE Calm(hist)
                  /\ pc' = "seed"
  /\ UNCHANGED << sweep, cfg, queue, visited, visitedCount, sampleTaken, seenLayouts, captured,
                  cur, dev, attempt, pageAt, manifestWrites >>

LoadRobots == LoadRobotsFrom(RobotsResponses)

Task(start, url, depth) == [start |-> start, url |-> url, depth |-> depth]

\* A sitemap filter that lets every entry in.
admitLocAlways(u, taken) == Verdict(TRUE, taken, FALSE, "pass")

\* shouldVisit(u, START_URLS[0], robots) of the sitemap loop
admitLoc(u, taken) == shouldVisit(u, START_URLS[1], robots, taken)

\* for (const u of locs) if (shouldVisit(u, START_URLS[0], robots)) queue.push(...)
RECURSIVE SitemapFold(_, _, _, _, _)
SitemapFold(locs, i, q, taken, h) ==
  IF i > Len(locs) THEN [queue |-> q, taken |-> taken, hist |-> h, threw |-> FALSE]
  ELSE LET v  == admitLoc(locs[i], taken)
           h2 == Observe(h, locs[i], v)
       IN  IF v.threw THEN [queue |-> q, taken |-> taken, hist |-> h2, threw |-> TRUE]
           ELSE IF v.ret
                  THEN SitemapFold(locs, i + 1, Append(q, Task(START_URLS[1], locs[i], 0)),
                                   v.taken, ObserveQueued(h2, locs[i], v))
                  ELSE SitemapFold(locs, i + 1, q, v.taken, h2)

\* The contexts are opened, the queue gets the seeds and, when SITEMAP_URL is
\* set, the sitemap's <loc> entries that pass shouldVisit.
SeedQueue ==
  /\ pc = "seed"
  /\ \E sm \in (IF SITEMAP_URL /\ variant # "basic" THEN SitemapResponses ELSE {SitemapOff}) :
       LET q0 == [i \in 1..Len(START_URLS) |-> Task(START_URLS[i], START_URLS[i], 0)]
           r  == IF sm.status \in {"off", "error"}
                   THEN [queue |-> q0, taken |-> sampleTaken, hist |-> hist, threw |-> FALSE]
                   ELSE SitemapFold(sm.body, 1, q0, sampleTaken, hist)
       IN  /\ queue' = r.queue
           /\ sampleTaken' = r.taken
           /\ hist' = LET h == [r.hist EXCEPT !.sitemap = IF r.threw THEN "threw" ELSE sm.status]
                       IN  IF sm.status = "error" \/ r.threw THEN Failed(h, "sitemap") ELSE Calm(h)
  /\ pageAt' = [i \in 1..Len(contexts) |-> Blank]
  /\ pc' = "loop"
  /\ UNCHANGED << sweep, cfg, robots, waitBetween, visited, visitedCount, seenLayouts, captured,
                  cur, dev, attempt, manifestWrites >>

\* while (queue.length && visited.size < MAX_PAGES)
\* A loop head testing `<=' where the code tests `<'.
LoopGuardInclusive ==
  /\ queue # <<>>
  /\ (IF variant = "basic" THEN visitedCount ELSE Cardinality(visited)) <= MAX_PAGES

LoopGuard ==
  /\ queue # <<>>
  /\ (IF variant = "basic" THEN visitedCount ELSE Cardinality(visited)) < MAX_PAGES

\* The task record the history keeps.
Summary(task) ==
  [task EXCEPT !.visits = [i \in 1..Len(task.visits) |->
                             [result |-> task.visits[i].result,
                              at     |-> task.visits[i].at,
                              shot   |-> task.visits[i].env.shot,
                              fresh  |-> task.visits[i].fresh,
                              key    |-> hashString(task.visits[i].env.sig)]]]

StartTask(h, t) ==
  [h EXCEPT !.prev = Summary(h.task),
            !.task = [url |-> t.url, depth |-> t.depth, visits |-> <<>>, harvested |-> FALSE]]

\* A shift that puts the task it takes back at the end of the queue.
shiftToBack(q) == Append(Tail(q), Head(q))

\* queue.shift(): the queue afterwards.
shift(q) == Tail(q)

\* A membership test that finds nothing.
hasNothing(set, url) == FALSE

\* visited.has(url)
has(set, url) == url \in set

\* The loop head: leave the loop, or shift a task, drop it (visited already,
\* or rejected by shouldVisit), or add it to visited and start its devices.
Dequeue ==
  /\ pc = "loop"
  /\ IF ~LoopGuard
       THEN /\ pc' = "finish"
            /\ hist' = Calm(hist)
            /\ UNCHANGED << queue, visited, sampleTaken, cur, dev, attempt >>
       ELSE LET t == Head(queue)
                v == IF variant = "basic" THEN Verdict(TRUE, sampleTaken, FALSE, "none")
                     ELSE shouldVisit(t.url, t.start, robots, sampleTaken)
            IN  /\ queue' = shift(queue)
                /\ IF has(visited, t.url)
                     THEN /\ pc' = "loop"
                          /\ hist' = Dropped(hist, "visited")
                          /\ UNCHANGED << visited, sampleTaken, cur, dev, attempt >>
                     ELSE IF v.threw
                     THEN /\ pc' = "aborted"
                          /\ hist' = Calm(hist)
                          /\ UNCHANGED << visited, sampleTaken, cur, dev, attempt >>
                     ELSE IF ~v.ret
                     THEN /\ pc' = "loop"
                          /\ sampleTaken' = v.taken
                          /\ hist' = Dropped(Observe(hist, t.url, v), "rejected")
                          /\ UNCHANGED << visited, cur, dev, attempt >>
                     ELSE /\ visited' = visited \cup {t.url}
                          /\ sampleTaken' = v.taken
                          /\ cur' = t
                          /\ dev' = 1
                          /\ attempt' = 0
                          /\ pc' = IF Len(contexts) = 0 THEN "harvest" ELSE "nav"
                          /\ hist' = Calm(StartTask(Observe(hist, t.url, v), t))
  /\ UNCHANGED << sweep, cfg, robots, waitBetween, visitedCount, seenLayouts, captured, pageAt,
                  manifestWrites >>

\* ------------------------------------------------------ device visits
\* gotoSmart: "idle" when page.goto returns under waitUntil networkidle,
\* "dom" when that throws and the goto under domcontentloaded returns,
\* "fail" when both throw (gotoSmart throws).
gotoSmart(primary, fallback) ==
  IF primary THEN "idle" ELSE IF fallback THEN "dom" ELSE "fail"

\* The "basic" revision: one page.goto under networkidle.
gotoBasic(primary, fallback) == IF primary THEN "idle" ELSE "fail"

\* After the catch of a device visit (console.error), the for-of loop over
\* contexts goes on with the next device; after the last one comes the
\* depth test and the link harvest.
NextDevice ==
  IF dev < Len(contexts) THEN [pc |-> "nav", dev |-> dev + 1]
                         ELSE [pc |-> "harvest", dev |-> dev]

\* A catch that leaves the device loop, and one that ends the run.
breakOnDeviceError == [pc |-> "harvest", dev |-> dev]
abortOnDeviceError == [pc |-> "aborted", dev |-> dev]

catchDeviceError == NextDevice

\* The page conditions recorded for a visit that never got to settle.
NoEnv == [quiet1 |-> TRUE, scroll |-> TRUE, quiet2 |-> TRUE, images |-> TRUE, shot |-> TRUE,
          sig |-> <<>>]

\* res.headers()["retry-after"]: absent (undefined), an empty string, a
\* decimal number of seconds, or an HTTP date.
MaxRetryAfter == 2

NoHeader == [kind |-> "absent", num |-> 0]

RetryAfterHeaders ==
  { NoHeader, [kind |-> "empty", num |-> 0], [kind |-> "date", num |-> 0] }
  \cup { [kind |-> "int", num |-> n] : n \in 0..MaxRetryAfter }

\* Boolean(ra): undefined and "" are falsy, every other string is truthy ("0" too).
Truthy(ra) == ra.kind \notin {"absent", "empty"}

\* +ra: the number a string converts to; an HTTP date gives NaN, "" gives 0.
ToNumber(ra) ==
  IF ra.kind = "date" THEN [nan |-> TRUE, val |-> 0] ELSE [nan |-> FALSE, val |-> ra.num]

\* A backoff that disregards the header.
backoffDefaultOnly(ra) == 5000

\* const ms = ra ? (isNaN(+ra) ? 5000 : +ra*1000) : 5000;
backoffMs(ra) ==
  IF Truthy(ra) THEN (IF ToNumber(ra).nan THEN 5000 ELSE ToNumber(ra).val * 1000) ELSE 5000

VisitDone(h, rec) ==
  [h EXCEPT !.task.visits = Append(@, rec), !.nav = "none", !.tries = 0, !.status = 0,
            !.retryAfter = NoHeader, !.backoff = 0]

\* The history after a navigation that ended as o with the given status and
\* retry-after header, and the sleep that followed (0: none).
Responded(h, o, status, ra, ms) ==
  [h EXCEPT !.nav = o, !.tries = @ + 1, !.status = status, !.retryAfter = ra, !.backoff = ms]

\* A retry test that allows one attempt more.
retryAllowedInclusive(n) == n <= RETRIES

\* `if (attempt < RETRIES) continue;`
retryAllowed(n) == n < RETRIES

\* One pass of the retry loop for the current device: gotoSmart, the status
\* test, the sleep after a 429/503, and `continue' while attempt < RETRIES.
Navigate ==
  /\ pc = "nav"
  /\ \E primary \in May("nav"), fallback \in May("nav"),
        status \in {200} \cup (IF "rate" \in cfg.faults THEN {429, 503} ELSE {}),
        stale \in BOOLEAN :
     \E ra \in (IF variant # "basic" /\ status \in {429, 503} THEN RetryAfterHeaders
                ELSE {NoHeader}) :
       LET o == IF variant = "basic" THEN gotoBasic(primary, fallback)
                ELSE gotoSmart(primary, fallback)
           limited == variant # "basic" /\ status \in {429, 503}
           ms == IF limited THEN backoffMs(ra) ELSE 0
       IN  IF o = "fail"
             THEN \* thrown out of the retry loop into the catch of the visit
                  /\ status = 200
                  /\ pageAt' = [pageAt EXCEPT ![dev] = IF stale THEN @ ELSE cur.url]
                  /\ pc' = catchDeviceError.pc
                  /\ dev' = catchDeviceError.dev
                  /\ attempt' = 0
                  /\ hist' = Failed(VisitDone(hist, [nav |-> "fail", env |-> NoEnv,
                                                     result |-> "failed", at |-> "goto",
                                                     fresh |-> FALSE, paced |-> FALSE]),
                               "nav")
             ELSE /\ ~stale
                  /\ pageAt' = [pageAt EXCEPT ![dev] = cur.url]
                  /\ dev' = dev
                  /\ IF limited /\ retryAllowed(attempt)
                       THEN /\ attempt' = attempt + 1
                            /\ pc' = "nav"
                            /\ hist' = Calm(Responded(hist, o, status, ra, ms))
                       ELSE /\ attempt' = 0
                            /\ pc' = "settle"
                            /\ hist' = IF limited THEN Failed(Responded(hist, o, status, ra, ms), "rate")
                                       ELSE Calm(Responded(hist, o, status, ra, ms))
  /\ UNCHANGED << sweep, cfg, robots, waitBetween, queue, visited, visitedCount, sampleTaken,
                  seenLayouts, captured, cur, manifestWrites >>

\* What the page does while it is settled and shot: whether each wait for
\* network quiescence returns in time, whether the scroll script and the
\* image wait and the screenshot (mkdir, screenshot, writeFile) succeed, and
\* the layout signature the page shows.
Envs ==
  [ quiet1 : May("quiet"), scroll : May("scroll"), quiet2 : May("quiet"),
    images : May("images"), shot : May("shot"),
    sig : IF variant = "dedup" THEN cfg.sigs ELSE {<<>>} ]

Outcome(result, at, seen, paced) ==
  [result |-> result, at |-> at, seen |-> seen, paced |-> paced]

\* "safe" and "sample": the statements between the retry loop and the catch.
settleSafe(e, url, seen) ==
  IF ~e.quiet1 THEN Outcome("failed", "idle1", seen, FALSE)
  ELSE IF ~e.scroll THEN Outcome("failed", "scroll", seen, FALSE)
  ELSE IF ~e.quiet2 THEN Outcome("failed", "idle2", seen, FALSE)
  ELSE IF ~e.images THEN Outcome("failed", "images", seen, FALSE)
  ELSE IF ~e.shot THEN Outcome("failed", "shot", seen, FALSE)
  ELSE Outcome("captured", "none", seen, waitBetween # 0)

\* "dedup": the same, with the layout check before the screenshot.
settleDedup(e, url, seen) ==
  IF ~e.quiet1 THEN Outcome("failed", "idle1", seen, FALSE)
  ELSE IF ~e.scroll THEN Outcome("failed", "scroll", seen, FALSE)
  ELSE IF ~e.quiet2 THEN Outcome("failed", "idle2", seen, FALSE)
  ELSE IF ~e.images THEN Outcome("failed", "images", seen, FALSE)
  ELSE LET k == shouldSkipByLayout(e.sig, url, seen)
       IN  IF k.ret THEN Outcome("layout", "none", k.seen, FALSE)
           ELSE IF ~e.shot THEN Outcome("failed", "shot", k.seen, FALSE)
           ELSE Outcome("captured", "none", k.seen, waitBetween # 0)

\* "stable": waitStable and the image wait never throw; a failed screenshot
\* is rethrown only when ALWAYS_SHOOT_ON_TIMEOUT is off.
settleStable(e, url, seen) ==
  IF ~e.scroll THEN Outcome("failed", "scroll", seen, FALSE)
  ELSE IF ~e.shot
         THEN (IF ALWAYS_SHOOT_ON_TIMEOUT THEN Outcome("noshot", "shot", seen, waitBetween # 0)
               ELSE Outcome("failed", "shot", seen, FALSE))
  ELSE Outcome("captured", "none", seen, waitBetween # 0)

\* "basic": scrollForLazyLoad and page.screenshot({path}); no manifest item.
settleBasic(e, url, seen) ==
  IF ~e.scroll THEN Outcome("failed", "scroll", seen, FALSE)
  ELSE IF ~e.shot THEN Outcome("failed", "shot", seen, FALSE)
  ELSE Outcome("shot", "none", seen, waitBetween # 0)

settle(e, url, seen) ==
  CASE variant = "basic"  -> settleBasic(e, url, seen)
    [] variant = "dedup"  -> settleDedup(e, url, seen)
    [] variant = "stable" -> settleStable(e, url, seen)
    [] OTHER              -> settleSafe(e, url, seen)

\* captured.push({ url, device: dev.label, ... })
Record(url, label) == [url |-> url, device |-> label]

\* The rest of a device visit after the retry loop: the waits, the scroll,
\* the layout check, the screenshot, the manifest item, the pacing sleep; a
\* throw ends in the catch of the visit.
SettleAndCapture ==
  /\ pc = "settle"
  /\ \E e \in Envs :
       LET r    == settle(e, cur.url, seenLayouts)
           next == IF r.result = "failed" THEN catchDeviceError ELSE NextDevice
           rec  == [nav |-> hist.nav, env |-> e, result |-> r.result, at |-> r.at,
                    fresh |-> hashString(e.sig) \notin seenLayouts, paced |-> r.paced]
       IN  /\ seenLayouts' = r.seen
           /\ captured' = IF r.result = "captured"
                            THEN Append(captured, Record(cur.url, contexts[dev]))
                            ELSE captured
           /\ pc' = next.pc
           /\ dev' = next.dev
           /\ hist' = IF r.result \in {"failed", "noshot"}
                        THEN Failed(VisitDone(hist, rec), "capture")
                        ELSE Calm(VisitDone(hist, rec))
  /\ attempt' = 0
  /\ UNCHANGED << sweep, cfg, robots, waitBetween, queue, visited, visitedCount, sampleTaken,
                  cur, pageAt, manifestWrites >>

\* ----------------------------------------------------- the scroll sweep
\* autoScroll(page, { step: 600, pause: 200 }) runs inside the page, under a
\* page.evaluate with no timeout.  Its loop tests only h - y, which is what
\* the sweep keeps as `rest' (y and h themselves grow without bound), with
\* the parity of the passes made as `pass'; `grows' are the amounts by which
\* the document may be found taller when its height is measured again.
SCROLL_STEP == 600

\* let y = 0, h = document.body?.scrollHeight || 0
autoScrollStart(height, grows) ==
  [phase |-> "loop", rest |-> height, pass |-> 0, grows |-> grows]

\* One pass of the body: y = Math.min(y + step, h); scrollTo; sleep(pause);
\* newH = scrollHeight || h; if (newH > h) h = newH.
autoScrollBody(rest, growth) == Max(rest - SCROLL_STEP, 0) + growth

\* while (y < h - 1) { ... }
autoScrollLoop ==
  /\ sweep.phase = "loop"
  /\ sweep.rest > 1
  /\ \E g \in sweep.grows :
       sweep' = [sweep EXCEPT !.rest = autoScrollBody(sweep.rest, g), !.pass = 1 - @]
  /\ UNCHANGED << cfg, pc, robots, waitBetween, queue, visited, visitedCount, sampleTaken,
                  seenLayouts, captured, cur, dev, attempt, pageAt, manifestWrites, hist >>

\* After the loop: sleep(pause); scrollTo(0, 0); sleep(150); evaluate returns.
autoScrollReturn ==
  /\ sweep.phase = "loop"
  /\ ~(sweep.rest > 1)
  /\ sweep' = [sweep EXCEPT !.phase = "done"]
  /\ UNCHANGED << cfg, pc, robots, waitBetween, queue, visited, visitedCount, sampleTaken,
                  seenLayouts, captured, cur, dev, attempt, pageAt, manifestWrites, hist >>

\* -------------------------------------------------------- link harvest
\* The "basic" revision picks the first start URL whose scope accepts abs.
RECURSIVE FirstStart(_, _)
FirstStart(abs, i) ==
  IF i > Len(START_URLS) THEN [ret |-> FALSE, start |-> Null, threw |-> FALSE]
  ELSE LET v == shouldVisitBasic(abs, START_URLS[i], NoRobots, sampleTaken)
       IN  IF v.threw THEN [ret |-> FALSE, start |-> Null, threw |-> TRUE]
           ELSE IF v.ret THEN [ret |-> TRUE, start |-> START_URLS[i], threw |-> FALSE]
           ELSE FirstStart(abs, i + 1)

\* An enqueue at the front of the queue.
unshift(q, task) == << task >> \o q

\* queue.push(task)
push(q, task) == Append(q, task)

\* A ceiling test that never stops the enqueue loop.
ceilingIgnored(q) == FALSE

\* `if (queue.length + visited.size >= MAX_PAGES) break;`
ceilingReached(q) == Len(q) + Cardinality(visited) >= MAX_PAGES

\* for (const raw of links) { normalize; skip null and visited; admission
\* check; push; break once queue.length + visited.size >= MAX_PAGES }
RECURSIVE HarvestFold(_, _, _, _, _)
HarvestFold(links, i, q, taken, h) ==
  IF i > Len(links) THEN [queue |-> q, taken |-> taken, hist |-> h, threw |-> FALSE]
  ELSE LET abs == normalizeUrl(links[i], cur.url)
       IN  IF abs = Null \/ abs \in visited THEN HarvestFold(links, i + 1, q, taken, h)
           ELSE IF variant = "basic"
             THEN LET f == FirstStart(abs, 1)
                      q2 == push(q, Task(f.start, abs, cur.depth + 1))
                  IN  IF f.threw THEN [queue |-> q, taken |-> taken, hist |-> h, threw |-> TRUE]
                      ELSE IF ~f.ret THEN HarvestFold(links, i + 1, q, taken, h)
                      ELSE IF ceilingReached(q2)
                             THEN [queue |-> q2, taken |-> taken, hist |-> h, threw |-> FALSE]
                      ELSE HarvestFold(links, i + 1, q2, taken, h)
             ELSE LET v  == shouldVisit(abs, cur.start, robots, taken)
                      h2 == Observe(h, abs, v)
                      q2 == push(q, Task(cur.start, abs, cur.depth + 1))
                  IN  IF v.threw THEN [queue |-> q, taken |-> taken, hist |-> h2, threw |-> TRUE]
                      ELSE IF ~v.ret THEN HarvestFold(links, i + 1, q, v.taken, h2)
                      ELSE IF ceilingReached(q2)
                             THEN [queue |-> q2, taken |-> v.taken,
                                   hist |-> ObserveQueued(h2, abs, v), threw |-> FALSE]
                      ELSE HarvestFold(links, i + 1, q2, v.taken, ObserveQueued(h2, abs, v))

\* A depth test that lets the deepest level through.
depthExceeded(task) == task.depth > MAX_DEPTH

\* `if (depth >= MAX_DEPTH) continue;`
depthReached(task) == task.depth >= MAX_DEPTH

\* After the devices: visitedCount++ ("basic"), the depth test, the a[href]
\* attributes of the first context's page (none when $$eval throws), and
\* the enqueue loop.
Harvest ==
  /\ pc = "harvest"
  /\ visitedCount' = IF variant = "basic" THEN visitedCount + 1 ELSE visitedCount
  /\ IF depthReached(cur)
       THEN /\ pc' = "loop"
            /\ hist' = Calm(hist)
            /\ UNCHANGED << queue, sampleTaken >>
       ELSE \E ok \in May("links") :
              LET links == IF ok /\ Len(contexts) > 0 THEN SiteLinks(pageAt[1]) ELSE <<>>
                  r     == HarvestFold(links, 1, queue, sampleTaken,
                                       [hist EXCEPT !.task.harvested = TRUE])
              IN  /\ queue' = r.queue
                  /\ sampleTaken' = r.taken
                  /\ hist' = Calm(r.hist)
                  /\ pc' = IF r.threw THEN "aborted" ELSE "loop"
  /\ UNCHANGED << sweep, cfg, robots, waitBetween, visited, seenLayouts, captured, cur, dev,
                  attempt, pageAt, manifestWrites >>

\* After the loop: the contexts and the browser are closed and manifest.json
\* is written (the "basic" revision writes none).
Finish ==
  /\ pc = "finish"
  /\ manifestWrites' = IF variant = "basic" THEN manifestWrites ELSE manifestWrites + 1
  /\ pc' = "done"
  /\ hist' = Calm(hist)
  /\ UNCHANGED << sweep, cfg, robots, waitBetween, queue, visited, visitedCount, sampleTaken,
                  seenLayouts, captured, cur, dev, attempt, pageAt >>

Next ==
  \/ Startup
  \/ LoadRobots
  \/ SeedQueue
  \/ Dequeue
  \/ Navigate
  \/ SettleAndCapture
  \/ Harvest
  \/ Finish

\* ------------------------------------------------------ the runs checked
Login == <<"login">>
Admin == <<"admin">>
BlogCat == <<"blog">>
NewsCat == <<"news">>

Sampling(v) == v \in {"sample", "stable"}

\* The environment of a run of revision v with the site's defaults: one
\* seed, one device, robots on, no sitemap, no faults.
Config(v) ==
  [ variant |-> v,
    START_URLS |-> << Root >>,
    DEVICES_RAW |-> << Desktop >>,
    SAME_HOST_ONLY |-> TRUE,
    PATH_PREFIX_MODE |-> "start",
    MAX_DEPTH |-> MaxDepthBound,
    MAX_PAGES |-> MaxPagesBound,
    RESPECT_ROBOTS |-> v # "basic",
    SITEMAP_URL |-> FALSE,
    RETRIES |-> MaxRetries,
    SKIP_URL_PATTERNS |-> IF v = "basic" THEN {}
                          ELSE IF Sampling(v) THEN {Login, Admin, BlogCat, NewsCat}
                          ELSE {Login, Admin},
    SAMPLE_DETAIL_ALLOW |-> Sampling(v),
    SAMPLE_DETAIL_PATTERNS |-> IF Sampling(v) THEN {BlogCat, NewsCat} ELSE {},
    ALWAYS_SHOOT_ON_TIMEOUT |-> TRUE,
    FILENAME_MODE |-> "flat",
    LAYOUT_DEDUP |-> v = "dedup",
    LAYOUT_IGNORE_URL_PATTERNS |-> {},
    WAIT_BETWEEN_MS |-> 1000,
    faults |-> {},
    sigs |-> { <<65, 66>> } ]

\* Crawls: every revision, over seed lists, sitemap on or off, page ceilings
\* and depths; the only nondeterminism is what robots.txt and the sitemap hold.
SeedLists ==
  { << Root >>, << Root, RootTop >>, << BlogP1, Root >>, << RootBare, About >>, << >> }

CrawlConfigs ==
  { [ Config(v) EXCEPT !.START_URLS = ss, !.SITEMAP_URL = sm, !.MAX_PAGES = mp,
                       !.MAX_DEPTH = md ] :
      v \in VARIANTS, ss \in SeedLists, sm \in BOOLEAN, mp \in 1..MaxPagesBound,
      md \in 0..MaxDepthBound }

\* Device visits under faults: two devices, one kind of fault at a time
\* (navigation and quiescence together), with and without pacing.
FaultSets == { {"nav", "quiet"}, {"rate"}, {"scroll"}, {"images"}, {"shot"}, {"links"} }

VisitConfigs ==
  { [ Config(v) EXCEPT !.DEVICES_RAW = << Desktop, IPhone >>, !.faults = fs,
                       !.MAX_PAGES = 2 ] : v \in VARIANTS, fs \in FaultSets }
  \cup { [ Config("stable") EXCEPT !.faults = {"shot"}, !.ALWAYS_SHOOT_ON_TIMEOUT = FALSE,
                                   !.WAIT_BETWEEN_MS = 0 ] }

\* Layout deduplication: pages showing any of the signatures, the ignore
\* list empty or naming /about, screenshots that may fail; and two devices.
DedupConfigs ==
  { [ Config("dedup") EXCEPT !.sigs = Signatures, !.LAYOUT_DEDUP = on,
                             !.LAYOUT_IGNORE_URL_PATTERNS = ig, !.faults = fs ] :
      on \in BOOLEAN, ig \in { {}, {<<"about">>} }, fs \in { {}, {"shot"} } }
  \cup { [ Config("dedup") EXCEPT !.sigs = Signatures, !.DEVICES_RAW = << Desktop, IPhone >>,
                                  !.MAX_PAGES = 2 ] }

\* Device lists: presets, sizes, unknown names, repeated items, none.
DeviceLists ==
  { << Desktop, IPhone >>, << IPhone, IPhone >>, << Desktop, Galaxy >>, << Galaxy >>, << >> }

DeviceConfigs ==
  { [ Config(v) EXCEPT !.DEVICES_RAW = ds, !.MAX_PAGES = 2 ] :
      v \in VARIANTS, ds \in DeviceLists }

\* One run meeting every kind of failure the loop absorbs.
FaultyConfigs ==
  { [ Config(v) EXCEPT !.faults = {"nav", "rate", "shot"}, !.SITEMAP_URL = TRUE,
                       !.MAX_PAGES = 2 ] : v \in {"safe", "stable"} }

Configs == CrawlConfigs \cup VisitConfigs \cup DedupConfigs \cup DeviceConfigs \cup FaultyConfigs

Init == \E c \in Configs : InitWith(c)

Spec == Init /\ [][Next]_vars

\* The crawls whose termination is examined.
InitCrawl == \E c \in CrawlConfigs \cup FaultyConfigs : InitWith(c)

\* The process has not ended (neither the end of main nor an uncaught throw).
Running == pc \notin {"done", "aborted"}

\* Every awaited call returns: a run that has not ended takes another step.
\* This is weak fairness of Next, its enabledness written as Running (each
\* action changes the state, and one is enabled at every position but the
\* two final ones).
Returns == []<>(~Running) \/ []<><<TRUE>>_vars

SpecFair == InitCrawl /\ [][Next]_vars /\ Returns

\* The sweep over documents of several heights (px), each with the ways it
\* may grow while it is scrolled: not at all, by a pixel, by half a step, by a step.
MaxScreens == 3
Heights == { k * 300 : k \in 0..(2 * MaxScreens) } \cup { 1, 2, 601 }
Growths == (SUBSET { 0, 1, 300, 600 }) \ { {} }

InitSweep ==
  /\ cfg = Config("safe")
  /\ pc = "settle"
  /\ robots = NoRobots
  /\ waitBetween = cfg.WAIT_BETWEEN_MS
  /\ queue = <<>>
  /\ visited = { Root }
  /\ visitedCount = 0
  /\ sampleTaken = [p \in cfg.SAMPLE_DETAIL_PATTERNS |-> FALSE]
  /\ seenLayouts = {}
  /\ captured = <<>>
  /\ cur = Task(Root, Root, 0)
  /\ dev = 1
  /\ attempt = 0
  /\ pageAt = << Root >>
  /\ manifestWrites = 0
  /\ hist = HistInit
  /\ \E height \in Heights, grows \in Growths : sweep = autoScrollStart(height, grows)

NextSweep ==
  \/ autoScrollLoop
  \/ autoScrollReturn

\* The sweep of one device visit; the page's timers fire (weak fairness).
SpecSweep == InitSweep /\ [][NextSweep]_vars /\ WF_vars(NextSweep)

\* Crawls under each scope setting: same-host on and off, prefix mode on and
\* off, a start URL with a path (/blog, /blog/p1) and one without any, the
\* sitemap entries queued under the first start URL.
ScopeConfigs ==
  { [ Config(v) EXCEPT !.START_URLS = ss, !.SAME_HOST_ONLY = sh, !.PATH_PREFIX_MODE = pm,
                       !.SITEMAP_URL = TRUE ] :
      v \in VARIANTS, ss \in { << Blog >>, << BlogP1, Root >>, << RootBare >> },
      sh \in BOOLEAN, pm \in {"start", "none"} }

InitScope == \E c \in ScopeConfigs : InitWith(c)

SpecScope == InitScope /\ [][Next]_vars

\* ------------------------------------------------ the robots delay alone
\* Crawl-delay values (seconds) served: 0..MaxCrawlDelay and 10.
MaxCrawlDelay == 6

DelaySeconds == (0..MaxCrawlDelay) \cup {10}

\* /robots.txt answers: a failure, a non-OK status, no Crawl-delay line, a
\* Crawl-delay in the * block, and one in another agent's block before it.
DelayResponses ==
  { Response("error", <<>>), Response("notok", <<>>),
    Response("ok", << RobotsLine("User-agent", <<"*">>),
                      RobotsLine("Disallow", <<"/", "private">>) >>) }
  \cup { Response("ok", << RobotsLine("User-agent", <<"*">>), CrawlDelay(n) >>) :
           n \in DelaySeconds }
  \cup { Response("ok", << RobotsLine("User-agent", <<"otherbot">>), CrawlDelay(9),
                           RobotsLine("User-agent", <<"*">>), CrawlDelay(n) >>) :
           n \in DelaySeconds }

\* WAIT_BETWEEN_MS as configured (ms).
WaitChoices == {0, 1000, 3000, 5000, 8000}

DelayConfigs ==
  { [ Config(v) EXCEPT !.WAIT_BETWEEN_MS = w ] : v \in VARIANTS \ {"basic"}, w \in WaitChoices }

InitDelay == \E c \in DelayConfigs : InitWith(c)

LoadRobotsDelay == LoadRobotsFrom(DelayResponses)

NextDelay ==
  \/ Startup
  \/ LoadRobotsDelay

SpecDelay == InitDelay /\ [][NextDelay]_vars

\* ------------------------------------------- one admission check alone
\* URLs put to shouldVisit: listings and details of the tracked categories,
\* with listing keywords in both letter cases, and paths that also hold an
\* auth/account word.
BlogPage    == Page(<<"/", "blog", "/", "page", "/", "p2">>)
BlogPageCap == Page(<<"/", "blog", "/", "Page", "/", "p2">>)
BlogSlash   == Page(<<"/", "blog", "/">>)
BlogLogin   == Page(<<"/", "blog", "/", "login">>)
BlogCapP1   == Page(<<"/", "Blog", "/", "p1">>)
NewsAdmin   == Page(<<"/", "news", "/", "admin">>)
LoginPage   == Page(<<"/", "login">>)
AdminBlog   == Page(<<"/", "admin", "/", "blog">>)

\* Detail pages of a tracked category on another host and under another scheme.
OtherBlogP1 == Url(HTTPS, ELSEWHERE, <<"/", "blog", "/", "p1">>, <<>>)
FtpBlogP1   == Url(<<"ftp:">>, EX, <<"/", "blog", "/", "p1">>, <<>>)

AdmitUrls ==
  { Root, About, PrivateX, Blog, BlogSlash, BlogPage, BlogPageCap, BlogP1, BlogLogin,
    BlogCapP1, NewsN1, NewsAdmin, LoginPage, AdminBlog, OtherBlogP1, FtpBlogP1, MailTo }

BlogDisallowed == [disallow |-> << <<"/", "blog">> >>, delay |-> 0]

AdmitConfigs ==
  { [ Config(v) EXCEPT !.SAMPLE_DETAIL_ALLOW = allow, !.START_URLS = << s >> ] :
      v \in {"sample", "stable"}, allow \in BOOLEAN, s \in {Root, Blog} }

\* A task about to be checked, the registry in any of its states.
InitAdmit ==
  /\ cfg \in AdmitConfigs
  /\ pc = "admit"
  /\ robots \in {NoRobots, BlogDisallowed}
  /\ waitBetween = cfg.WAIT_BETWEEN_MS
  /\ queue = <<>>
  /\ visited = {}
  /\ visitedCount = 0
  /\ sampleTaken \in [cfg.SAMPLE_DETAIL_PATTERNS -> BOOLEAN]
  /\ seenLayouts = {}
  /\ captured = <<>>
  /\ \E u \in AdmitUrls : cur = Task(cfg.START_URLS[1], u, 1)
  /\ dev = 1
  /\ attempt = 0
  /\ pageAt = <<>>
  /\ manifestWrites = 0
  /\ hist = HistInit
  /\ sweep = NoSweep

\* One call shouldVisit(url, start, robots): the value returned is kept in pc.
Admit ==
  /\ pc = "admit"
  /\ LET v == shouldVisit(cur.url, cur.start, robots, sampleTaken)
     IN  /\ sampleTaken' = v.taken
         /\ hist' = Observe(hist, cur.url, v)
         /\ pc' = IF v.threw THEN "aborted" ELSE IF v.ret THEN "admitted" ELSE "rejected"
  /\ UNCHANGED << sweep, cfg, robots, waitBetween, queue, visited, visitedCount,
                  seenLayouts, captured, cur, dev, attempt, pageAt, manifestWrites >>

SpecAdmit == InitAdmit /\ [][Admit]_vars

\* ------------------------------------------------- normalizeUrl alone
\* href attributes and absolute URLs given to normalizeUrl, and the bases
\* (documents) they are resolved against.
RawHrefs ==
  { Rel(<<>>), Rel(<<"/", "about">>), RelF(<<>>, "top"), RelF(<<"/", "about">>, "team"),
    Root, RootBare, RootTop, Url(HTTPS, EX, <<>>, <<"#", "top">>), BlogP1, Elsewhere,
    MailTo, Url(<<"mailto:">>, <<>>, <<"me@ex.com">>, <<"#", "x">>), BadUrl }

Bases == { Root, RootBare, RootTop, BlogP1, About, BadUrl }

\* The results so far are kept in `queue', the raw input first.
InitNormalize ==
  /\ cfg = Config("safe")
  /\ pc = "normalize"
  /\ robots = NoRobots
  /\ waitBetween = cfg.WAIT_BETWEEN_MS
  /\ \E u \in RawHrefs, b \in Bases : /\ queue = << Task(b, u, 0) >>
                                       /\ cur = Task(b, b, 0)
  /\ visited = {}
  /\ visitedCount = 0
  /\ sampleTaken = [p \in cfg.SAMPLE_DETAIL_PATTERNS |-> FALSE]
  /\ seenLayouts = {}
  /\ captured = <<>>
  /\ dev = 1
  /\ attempt = 0
  /\ pageAt = <<>>
  /\ manifestWrites = 0
  /\ hist = HistInit
  /\ sweep = NoSweep

\* normalizeUrl(x, base) on the last result x, unless that was null.
Normalize ==
  /\ pc = "normalize"
  /\ Len(queue) < 3
  /\ queue[Len(queue)].url # Null
  /\ queue' = Append(queue, Task(cur.url, normalizeUrl(queue[Len(queue)].url, cur.url), 0))
  /\ UNCHANGED << sweep, cfg, pc, robots, waitBetween, visited, visitedCount, sampleTaken,
                  seenLayouts, captured, cur, dev, attempt, pageAt, manifestWrites, hist >>

SpecNormalize == InitNormalize /\ [][Normalize]_vars

\* ------------------------------------------------- buildSavePath alone
OUT_DIR == <<"public">>
FILENAME_MODE == cfg.FILENAME_MODE

\* A path segment the URL parser and path.normalize read as "parent".
DotDot == {<<"..">>, <<"%2e%2e">>}

\* path.normalize on the segments of a relative path: "." is dropped, ".."
\* removes the segment before it, or stays when there is none to remove.
RECURSIVE NormalizeSegs(_, _, _)
NormalizeSegs(segs, i, acc) ==
  IF i > Len(segs) THEN acc
  ELSE IF segs[i] = <<".">> THEN NormalizeSegs(segs, i + 1, acc)
  ELSE IF segs[i] = <<"..">>
         THEN (IF acc # <<>> /\ acc[Len(acc)] # <<"..">>
                 THEN NormalizeSegs(segs, i + 1, SubSeq(acc, 1, Len(acc) - 1))
                 ELSE NormalizeSegs(segs, i + 1, Append(acc, segs[i])))
  ELSE NormalizeSegs(segs, i + 1, Append(acc, segs[i]))

\* path.join(a, b): the segments of a + "/" + b, normalized.
pathJoin(a, b) == NormalizeSegs(SplitSegments(a \o <<"/">> \o b), 1, <<>>)

\* new URL(u).pathname: the parser has removed the dot segments (a ".."
\* written as %2e%2e too); at the root ".." removes nothing.
RECURSIVE RemoveDotSegments(_, _, _)
RemoveDotSegments(segs, i, acc) ==
  IF i > Len(segs) THEN acc
  ELSE IF segs[i] = <<".">> THEN RemoveDotSegments(segs, i + 1, acc)
  ELSE IF segs[i] \in DotDot
         THEN RemoveDotSegments(segs, i + 1,
                                IF acc = <<>> THEN acc ELSE SubSeq(acc, 1, Len(acc) - 1))
  ELSE RemoveDotSegments(segs, i + 1, Append(acc, segs[i]))

\* The segments written back as a path: "/" before each segment.
RECURSIVE Slashed(_)
Slashed(segs) == IF segs = <<>> THEN <<>> ELSE <<"/">> \o segs[1] \o Slashed(Tail(segs))

UrlPathname(u) ==
  LET segs == RemoveDotSegments(SplitSegments(Pathname(u)), 1, <<>>)
      p    == Pathname(u)
  IN  IF segs = <<>> THEN <<"/">>
      ELSE Slashed(segs) \o (IF p[Len(p)] = "/" THEN <<"/">> ELSE <<>>)

\* pathname.replace(/[^a-z0-9_-]+/gi, "_"): every run of other characters
\* becomes one "_" (the atoms of a path other than "/", ".." are words).
RECURSIVE SafePath(_)
SafePath(s) ==
  IF s = <<>> THEN <<>>
  ELSE IF s[1] \in {"/", ".", ".."}
         THEN <<"_">> \o SafePath(SubSeq(s, SkipWhile(s, 1, {"/", ".", ".."}), Len(s)))
         ELSE <<s[1]>> \o SafePath(Tail(s))

\* `${base}__${deviceLabel}${fullPage ? "__full" : ""}@${scale}x.png`
FileName(base, label) == base \o <<"__">> \o label \o <<"__full", "@", "1", "x.png">>

\* buildSavePath(u, deviceLabel, scale, fullPage, mode): the segments of the
\* path returned.  (.slice(0,180) of the flat base is left out: it shortens
\* the name and adds no separator.)
buildSavePath(u, label, mode) ==
  LET pathname == UrlPathname(u)
      segs     == SplitSegments(pathname)
  IN  IF mode = "tree"
        THEN LET dir  == IF pathname = <<"/">> THEN pathJoin(OUT_DIR, u.host)
                         ELSE pathJoin(OUT_DIR \o <<"/">> \o u.host, pathname)
                 base == IF pathname = <<"/">> THEN <<"root">> ELSE segs[Len(segs)]
             IN  pathJoin(Slashed(dir), FileName(base, label))
        ELSE LET safePath == IF pathname = <<"/">> THEN <<"root">> ELSE SafePath(pathname)
             IN  pathJoin(OUT_DIR, FileName(u.host \o <<"__">> \o safePath, label))

\* DEVICES items with a "/" and with ".." in them.
TabletWide == <<"tablet", "/", "wide", " ", "1440", "x", "900">>
UpAndOut   == <<"x", "/", "..", "/", "..", "/", "..", "/", "tmp", " ", "1440", "x", "900">>

SaveDevices == { Desktop, IPhone, Galaxy, TabletWide, UpAndOut }

\* URLs a page may be visited under: paths written with traversal segments.
SaveUrls ==
  { Root, RootBare, About, Blog, BlogSlash,
    Page(<<"/", "a", "/", "..", "/", "..", "/", "etc">>),
    Page(<<"/", "a", "/", "%2e%2e", "/", "%2e%2e", "/", "etc", "/">>),
    Page(<<"/", "/", "etc">>) }

SaveConfigs ==
  { [ Config(v) EXCEPT !.DEVICES_RAW = << d >>, !.FILENAME_MODE = fm ] :
      v \in {"safe", "stable"}, d \in SaveDevices, fm \in {"flat", "tree"} }

InitSave ==
  /\ cfg \in SaveConfigs
  /\ pc = "shoot"
  /\ robots = NoRobots
  /\ waitBetween = cfg.WAIT_BETWEEN_MS
  /\ \E u \in SaveUrls, w \in SaveUrls :
        /\ u # w
        /\ cur = Task(u, u, 0)
        /\ queue = << Task(w, w, 0) >>
        /\ visited = {u}
        /\ pageAt = << u >>
  /\ visitedCount = 0
  /\ sampleTaken = [p \in cfg.SAMPLE_DETAIL_PATTERNS |-> FALSE]
  /\ seenLayouts = {}
  /\ captured = <<>>
  /\ dev = 1
  /\ attempt = 0
  /\ manifestWrites = 0
  /\ hist = HistInit
  /\ sweep = NoSweep

\* const out = buildSavePath(url, dev.label, SCALE, FULL_PAGE, FILENAME_MODE);
\* the screenshot is written there and the record pushed; then the next
\* task's page is shot.
Save ==
  /\ pc = "shoot"
  /\ captured' = Append(captured,
                        [url |-> cur.url, device |-> contexts[dev],
                         file |-> buildSavePath(cur.url, contexts[dev], FILENAME_MODE)])
  /\ IF queue # <<>>
       THEN /\ cur' = Head(queue)
            /\ queue' = shift(queue)
            /\ visited' = visited \cup {Head(queue).url}
            /\ pageAt' = << Head(queue).url >>
            /\ pc' = "shoot"
       ELSE /\ pc' = "saved"
            /\ UNCHANGED << cur, queue, visited, pageAt >>
  /\ UNCHANGED << sweep, cfg, robots, waitBetween, visitedCount, sampleTaken, seenLayouts,
                  dev, attempt, manifestWrites, hist >>

SpecSave == InitSave /\ [][Save]_vars

\* ------------------------------------------------- waitStable alone
\* What the page does during one call: whether each waitForLoadState returns
\* within LOADSTATE_TIMEOUT_MS and whether waitForTimeout(2000) returns.
StableEnvs == [ idle : BOOLEAN, load : BOOLEAN, dom : BOOLEAN, pause : BOOLEAN ]

Waited(ret, tried, threw) == [ret |-> ret, tried |-> tried, threw |-> threw]

\* A waitStable without the nested catch blocks: the first failure is raised.
waitStableUnguarded(e) ==
  IF e.idle THEN Waited("networkidle", <<"networkidle">>, FALSE)
  ELSE Waited("none", <<"networkidle">>, TRUE)

\* waitStable(page): the value returned, the waits made in order, and
\* whether the call ended in a throw.
waitStable(e) ==
  IF e.idle THEN Waited("networkidle", <<"networkidle">>, FALSE)
  ELSE IF e.load THEN Waited("load", <<"networkidle", "load">>, FALSE)
  ELSE IF e.dom
         THEN Waited("domcontentloaded", <<"networkidle", "load", "domcontentloaded">>, FALSE)
  ELSE IF e.pause
         THEN Waited("timeout", <<"networkidle", "load", "domcontentloaded", "timeout">>, FALSE)
  ELSE Waited("none", <<"networkidle", "load", "domcontentloaded", "timeout">>, TRUE)

\* The calls made so far are kept in `queue', each with what the page did.
InitStable ==
  /\ cfg = [Config("stable") EXCEPT !.faults = {"scroll"}]
  /\ pc = "stable1"
  /\ robots = NoRobots
  /\ waitBetween = cfg.WAIT_BETWEEN_MS
  /\ queue = <<>>
  /\ visited = {Root}
  /\ visitedCount = 0
  /\ sampleTaken = [p \in cfg.SAMPLE_DETAIL_PATTERNS |-> FALSE]
  /\ seenLayouts = {}
  /\ captured = <<>>
  /\ cur = Task(Root, Root, 0)
  /\ dev = 1
  /\ attempt = 0
  /\ pageAt = << Root >>
  /\ manifestWrites = 0
  /\ hist = HistInit
  /\ sweep = NoSweep

\* try { await waitStable(dev.page); } catch {}   (before and after autoScroll)
Stabilize ==
  /\ pc \in {"stable1", "stable2"}
  /\ \E e \in StableEnvs :
       queue' = Append(queue, [at |-> pc, env |-> e, got |-> waitStable(e)])
  /\ pc' = IF pc = "stable1" THEN "scroll" ELSE "images"
  /\ UNCHANGED << sweep, cfg, robots, waitBetween, visited, visitedCount, sampleTaken,
                  seenLayouts, captured, cur, dev, attempt, pageAt, manifestWrites, hist >>

\* await autoScroll(dev.page, ...): a throw ends the visit in its catch.
ScrollBetween ==
  /\ pc = "scroll"
  /\ \E ok \in May("scroll") : pc' = IF ok THEN "stable2" ELSE "failed"
  /\ UNCHANGED << sweep, cfg, robots, waitBetween, queue, visited, visitedCount, sampleTaken,
                  seenLayouts, captured, cur, dev, attempt, pageAt, manifestWrites, hist >>

NextStable == Stabilize \/ ScrollBetween

SpecStable == InitStable /\ [][NextStable]_vars

\* --------------------------------------------- the prefix test alone
\* A site with a directory, a page file in it, and a directory whose name
\* starts with the other's ("/docs-old" is the atoms "/", "docs", "-old").
IndexHtml  == <<"index.html">>
Docs       == Page(<<"/", "docs">>)
DocsSlash  == Page(<<"/", "docs", "/">>)
DocsIndex  == Page(<<"/", "docs", "/", "index.html">>)
DocsGuide  == Page(<<"/", "docs", "/", "guide">>)
DocsApiRef == Page(<<"/", "docs", "/", "api", "/", "ref">>)
DocsOld    == Page(<<"/", "docs", "-old">>)
DocsOldX   == Page(<<"/", "docs", "-old", "/", "x">>)
OtherDocsGuide == Url(HTTPS, ELSEWHERE, <<"/", "docs", "/", "guide">>, <<>>)

PrefixStarts == { Root, Docs, DocsSlash, DocsIndex }
PrefixUrls ==
  { Root, About, Docs, DocsSlash, DocsIndex, DocsGuide, DocsApiRef, DocsOld, DocsOldX,
    OtherDocsGuide }

PrefixConfigs ==
  { [ Config(v) EXCEPT !.START_URLS = << s >>, !.PATH_PREFIX_MODE = pm ] :
      v \in {"basic", "safe"}, s \in PrefixStarts, pm \in {"start", "none"} }

InitPrefix ==
  /\ cfg \in PrefixConfigs
  /\ pc = "admit"
  /\ robots = NoRobots
  /\ waitBetween = cfg.WAIT_BETWEEN_MS
  /\ queue = <<>>
  /\ visited = {}
  /\ visitedCount = 0
  /\ sampleTaken = [p \in cfg.SAMPLE_DETAIL_PATTERNS |-> FALSE]
  /\ seenLayouts = {}
  /\ captured = <<>>
  /\ \E u \in PrefixUrls : cur = Task(cfg.START_URLS[1], u, 1)
  /\ dev = 1
  /\ attempt = 0
  /\ pageAt = <<>>
  /\ manifestWrites = 0
  /\ hist = HistInit
  /\ sweep = NoSweep

SpecPrefix == InitPrefix /\ [][Admit]_vars

\* ------------------------------------------------------------- claims
\* C1: in every reachable state of the crawl loop, whatever the seeds, the
\* sitemap entries and the links, VisitedSet holds at most MAX_PAGES URLs.
C1_VisitedWithinCeiling == Cardinality(visited) <= MAX_PAGES

\* The loop left at the ceiling with tasks still queued.
C1_CeilingReached ==
  pc = "finish" /\ Cardinality(visited) = MAX_PAGES /\ MAX_PAGES > 1 /\ queue # <<>>

\* C2: the manifest never holds two records with the same (url, device
\* label) pair, whatever the device list.
C2_NoDuplicateRecords ==
  \A i, j \in 1..Len(captured) :
     (captured[i].url = captured[j].url /\ captured[i].device = captured[j].device) => i = j

\* The checks of skip-matched detail URLs so far, in order: per category the
\* first is admitted and every later one rejected.
SampleLogOrdered ==
  \A j \in 1..Len(hist.admLog) :
     hist.admLog[j].ret = (\A i \in 1..(j - 1) : hist.admLog[i].cat # hist.admLog[j].cat)

\* A step never resets a category's flag.
SampleFlagsOnlyRise ==
  \A c \in DOMAIN sampleTaken : sampleTaken[c] => sampleTaken'[c]

\* C3: over the admission checks of a run (sitemap seeding, enqueue and
\* dequeue together) the sample exception is granted at most once per
\* tracked category: the first skip-matched detail URL checked is admitted,
\* every later one of the category is rejected, and a flag of the registry
\* only ever changes from false to true.
C3_SampleOncePerCategory == []SampleLogOrdered /\ [][SampleFlagsOnlyRise]_vars

\* Two different detail URLs of one category were checked: the first was
\* admitted, the second rejected, and the flag is set.
C3_SecondDetailRejected ==
  /\ Len(hist.admLog) >= 2
  /\ hist.admLog[1].cat = hist.admLog[2].cat
  /\ hist.admLog[1].url # hist.admLog[2].url
  /\ hist.admLog[1].ret /\ ~hist.admLog[2].ret
  /\ sampleTaken[hist.admLog[1].cat]

\* C4: with the sample allowance on, a detail URL that was admitted under
\* the exception when it was harvested (or seeded from the sitemap) enters
\* VisitedSet when its task is dequeued, the page ceiling not being reached.
C4_SampleAdmittedIsVisited ==
  [][ ( /\ pc = "loop"
        /\ LoopGuard
        /\ Head(queue).url \in hist.sampleQueued
        /\ Head(queue).url \notin visited )
      => Head(queue).url \in visited' ]_vars

\* The URLs shouldVisit is asked about, and the states of the registry.
SiteUrls == { Root, RootTop, About, Blog, BlogP1, BlogP2, NewsN1, PrivateX }
Registries == [SAMPLE_DETAIL_PATTERNS -> BOOLEAN]

\* C5: with robots compliance on, shouldVisit is false for every URL whose
\* path starts with a loaded Disallow prefix, whatever the registry holds,
\* and no such URL is ever in VisitedSet.
C5_DisallowedNeverVisited ==
  (RESPECT_ROBOTS /\ pc \notin {"start", "robots", "aborted"}) =>
     /\ \A u \in SiteUrls, t \in Registries :
           blockedByRobots(Pathname(u), robots.disallow)
             => ~shouldVisit(u, START_URLS[1], robots, t).ret
     /\ \A u \in visited : ~blockedByRobots(Pathname(u), robots.disallow)

\* u without its fragment, as written.
WithoutFragment(u) == [u EXCEPT !.frag = <<>>]

\* C6: VisitedSet never holds two URLs that are equal after fragment removal.
C6_VisitedDistinctModuloFragment ==
  \A u, w \in visited : WithoutFragment(u) = WithoutFragment(w) => u = w

\* C7: a device visit whose navigation failed under networkidle and
\* succeeded under domcontentloaded, and whose screenshot succeeds, yields a
\* capture record: no later step drops the page for want of quiescence.
C7_FallbackNavigationCaptured ==
  \A i \in 1..Len(hist.task.visits) :
     LET v == hist.task.visits[i]
     IN  (v.nav = "dom" /\ v.env.scroll /\ v.env.images /\ v.env.shot /\ v.result # "layout")
           => v.result = "captured"

\* A visit that got as far as the layout check.
ReachedLayoutCheck(v) ==
  v.result \in {"captured", "layout"} \/ (v.result = "failed" /\ v.at = "shot")

LayoutIgnored(url) ==
  \E p \in LAYOUT_IGNORE_URL_PATTERNS : p # <<>> /\ RegExpTestI(p, Text(url))

\* The last two tasks processed are two pages subject to layout dedup that
\* showed, device by device, signatures with the same hash.
SameLayoutPair ==
  /\ variant = "dedup" /\ LAYOUT_DEDUP
  /\ pc \in {"loop", "finish", "done"}
  /\ hist.prev.url # Null /\ hist.task.url # Null
  /\ ~LayoutIgnored(hist.prev.url) /\ ~LayoutIgnored(hist.task.url)
  /\ Len(hist.prev.visits) = Len(hist.task.visits)
  /\ Len(hist.task.visits) > 0
  /\ \A i \in 1..Len(hist.task.visits) :
        /\ ReachedLayoutCheck(hist.prev.visits[i])
        /\ ReachedLayoutCheck(hist.task.visits[i])
        /\ hist.prev.visits[i].key = hashString(hist.task.visits[i].env.sig)

HarvestNotBlocked(task) == task.harvested = (task.depth < MAX_DEPTH)

\* C8 as stated: of two consecutively visited pages whose signatures hash
\* identically, both are in VisitedSet and both are harvested (where the
\* depth allows), the first produces a capture record (its screenshots
\* succeeding) and the second none.
C8_FirstCapturedSecondSkipped ==
  (SameLayoutPair /\ \A i \in 1..Len(hist.prev.visits) : hist.prev.visits[i].shot) =>
     /\ hist.prev.url \in visited /\ hist.task.url \in visited
     /\ HarvestNotBlocked(hist.prev) /\ HarvestNotBlocked(hist.task)
     /\ \E i \in 1..Len(hist.prev.visits) : hist.prev.visits[i].result = "captured"
     /\ \A j \in 1..Len(hist.task.visits) : hist.task.visits[j].result # "captured"

\* C8, amended: the first page produces a capture record exactly on the
\* devices where its hash had not been seen earlier in the run (and the
\* screenshot succeeds); the second page is skipped on every device.
C8_SecondSkippedFirstCapturedIfFresh ==
  SameLayoutPair =>
     /\ hist.prev.url \in visited /\ hist.task.url \in visited
     /\ HarvestNotBlocked(hist.prev) /\ HarvestNotBlocked(hist.task)
     /\ \A i \in 1..Len(hist.prev.visits) :
           LET v == hist.prev.visits[i]
           IN  /\ (v.fresh /\ v.shot) => v.result = "captured"
               /\ ~v.fresh => v.result = "layout"
     /\ \A j \in 1..Len(hist.task.visits) : hist.task.visits[j].result = "layout"

\* Two seeds of depth 0 with the same layout: the first captured, the second
\* skipped, both harvested.
C8_DuplicateSkippedButHarvested ==
  /\ SameLayoutPair
  /\ hist.prev.harvested /\ hist.task.harvested
  /\ \E i \in 1..Len(hist.prev.visits) : hist.prev.visits[i].result = "captured"
  /\ \A j \in 1..Len(hist.task.visits) : hist.task.visits[j].result = "layout"
  /\ Len(captured) = 1

\* C9: within a task, a navigation or capture failure on one device
\* prevents neither the visits of the remaining devices nor the link
\* harvest of the task.
C9_DeviceFailureIsolated ==
  /\ pc \in {"nav", "settle"} => Len(hist.task.visits) = dev - 1
  /\ pc = "harvest" => Len(hist.task.visits) = Len(contexts)
  /\ (pc \in {"loop", "finish", "done"} /\ hist.task.url # Null) =>
        /\ Len(hist.task.visits) = Len(contexts)
        /\ hist.task.depth < MAX_DEPTH => hist.task.harvested

\* The first device failed, the second was captured, the links were harvested.
C9_SecondDeviceAfterFailure ==
  /\ pc = "loop"
  /\ hist.task.harvested
  /\ Len(hist.task.visits) = 2
  /\ hist.task.visits[1].result = "failed"
  /\ hist.task.visits[2].result = "captured"

\* C10: a robots.txt fetch failure, a sitemap fetch failure, a navigation
\* failure, an exhausted 429/503 retry and a per-device capture failure never
\* stop the run: after each the loop goes on to the next step, device or
\* task, and the manifest is written once, when the frontier is finished.
C10_FailuresNeverStopTheRun ==
  /\ hist.lastFail = "robots" => pc = "seed"
  /\ hist.lastFail = "sitemap" => pc = "loop"
  /\ hist.lastFail = "rate" => pc = "settle"
  /\ hist.lastFail \in {"nav", "capture"} => pc \in {"nav", "harvest"}
  /\ variant # "basic" => manifestWrites = (IF pc = "done" THEN 1 ELSE 0)

\* A run that met all five kinds of failure and wrote its manifest.
C10_FinishedDespiteFailures ==
  /\ pc = "done"
  /\ manifestWrites = 1
  /\ hist.failures = {"robots", "sitemap", "nav", "rate", "capture"}

\* C11: every device visit finishes after a bounded number of steps whatever
\* the page does, also when the document is found taller each time its
\* height is measured during the scroll sweep: the sweep returns.
C11_SweepReturns == <>(sweep.phase = "done")

\* The loop was left with the queue empty or VisitedSet at the ceiling.
LoopLeftAtEnd ==
  pc \in {"finish", "done"} => (queue = <<>> \/ Cardinality(visited) = MAX_PAGES)

\* C12: every device visit and link extraction returning, the crawl loop
\* terminates, and when it does the queue is empty or VisitedSet holds
\* MAX_PAGES URLs.
C12_LoopTerminates == <>(pc \in {"done", "aborted"}) /\ []LoopLeftAtEnd

\* A crawl that ended below the ceiling because the queue ran empty.
C12_QueueRanEmpty ==
  /\ pc = "done"
  /\ queue = <<>>
  /\ Cardinality(visited) >= 2
  /\ Cardinality(visited) < MAX_PAGES

\* C13: no task deeper than MAX_DEPTH is enqueued or visited; a task at
\* depth MAX_DEPTH is visited on every device like any other, and its links
\* are not harvested.
C13_DepthWithinLimit ==
  /\ \A i \in 1..Len(queue) : queue[i].depth <= MAX_DEPTH
  /\ pc \in {"nav", "settle", "harvest"} => cur.depth <= MAX_DEPTH
  /\ hist.task.url # Null =>
        /\ hist.task.depth <= MAX_DEPTH
        /\ hist.task.url \in visited
        /\ hist.task.depth = MAX_DEPTH =>
              /\ ~hist.task.harvested
              /\ pc \in {"loop", "finish", "done"} => Len(hist.task.visits) = Len(contexts)

\* A page found by following a link, at depth MAX_DEPTH, was captured and
\* the loop went on without harvesting it.
C13_DeepestCapturedNotHarvested ==
  /\ pc = "loop"
  /\ hist.task.url # Null
  /\ hist.task.depth = MAX_DEPTH
  /\ MAX_DEPTH >= 1
  /\ Len(hist.task.visits) >= 1
  /\ hist.task.visits[1].result = "captured"
  /\ ~hist.task.harvested

\* A listing URL of a tracked category: the path is the category alone, or
\* its second segment is a listing keyword.
TrackedListing(u) ==
  LET parts == SplitSegments(Pathname(u))
  IN  /\ Len(parts) >= 1
      /\ parts[1] \in SAMPLE_DETAIL_PATTERNS
      /\ Len(parts) = 1 \/ ToLowerCase(parts[2]) \in ListingKeywords

\* C14: the admission check of a listing URL of a tracked category that
\* matches a skip pattern returns false, whatever the registry holds, and
\* leaves the registry as it was.
C14_ListingRejectedRegistryKept ==
  [][ (pc = "admit" /\ TrackedListing(cur.url) /\ hitSkip(cur.url))
      => (pc' = "rejected" /\ sampleTaken' = sampleTaken) ]_vars

\* A listing URL with a keyword segment was rejected with the exception on
\* and its category's exception still unused.
C14_KeywordListingRejected ==
  /\ pc = "rejected"
  /\ SAMPLE_DETAIL_ALLOW
  /\ cur.url = BlogPageCap
  /\ hitSkip(cur.url)
  /\ ~sampleTaken[BlogCat]

\* The auth/account/commerce skip patterns configured.
AuthPatterns == {Login, Admin}

MatchesAuthPattern(u) ==
  \E p \in AuthPatterns \cap SKIP_URL_PATTERNS : RegExpTestI(p, Text(u))

\* C15: a URL that matches an auth/account/commerce skip pattern is never
\* admitted by shouldVisit, also when its first path segment is a tracked
\* category whose exception is unused.
C15_AuthPatternNeverAdmitted == pc = "admitted" => ~MatchesAuthPattern(cur.url)

\* p is a leading part of the sequence s.
IsPrefixSeq(p, s) == Len(p) <= Len(s) /\ SubSeq(s, 1, Len(p)) = p

\* t is in scope of the start URL s.
InScope(t, s) ==
  /\ t.scheme \in {<<"http:">>, <<"https:">>}
  /\ SAME_HOST_ONLY => t.host = s.host
  /\ (PATH_PREFIX_MODE = "start" /\ SplitSegments(Pathname(s)) # <<>>)
        => IsPrefixSeq(SplitSegments(Pathname(s)), SplitSegments(Pathname(t)))

\* The URLs the prefix test is asked about.
ScopeCandidates == AdmitUrls \cup { RootBare, RootTop, Elsewhere, MailTo }

\* C16: every URL that enters VisitedSet is in scope of its task's start URL
\* (scheme, host when same-host is required, path under the start path when
\* prefix mode is on and the start path is not root); a start URL whose path
\* is empty or root makes the prefix test reject nothing.
C16_VisitedInScope ==
  /\ [][ \A u \in visited' \ visited : u = cur'.url /\ InScope(cur'.url, cur'.start) ]_vars
  /\ [](\A s \in {Root, RootBare, RootTop}, t \in ScopeCandidates : PrefixOk(t, s))

\* Under the start URL /blog with prefix mode on, the sitemap entries below
\* /blog were visited; /about, listed in the same sitemap, was not.
C16_VisitedUnderStartPath ==
  /\ pc = "done"
  /\ START_URLS = << Blog >>
  /\ PATH_PREFIX_MODE = "start"
  /\ visited = {Blog, BlogP1, BlogP2}
  /\ \A i \in 1..Len(queue) : queue[i].url # About

\* The derived delay for a Crawl-delay of n seconds, in ms.
DerivedDelay(n) == IF 1000 * n < 5000 THEN 1000 * n ELSE 5000

\* C17: the crawl delay derived from robots.txt is min(5000, 1000 * seconds),
\* and after robots is loaded the base delay is the larger of the configured
\* one and the derived one: never below the configured one, never raised
\* above 5000 ms by robots.
C17_DelayClampedAndFloored ==
  /\ \A n \in DelaySeconds :
        loadRobots(Response("ok", << RobotsLine("User-agent", <<"*">>), CrawlDelay(n) >>)).delay
          = DerivedDelay(n)
  /\ pc = "seed" =>
        /\ \E r \in DelayResponses : robots = loadRobots(r)
        /\ robots.delay <= 5000
        /\ waitBetween >= cfg.WAIT_BETWEEN_MS
        /\ waitBetween >= robots.delay
        /\ waitBetween \in {cfg.WAIT_BETWEEN_MS, robots.delay}
        /\ waitBetween > 5000 => waitBetween = cfg.WAIT_BETWEEN_MS

\* robots.txt asked for 10 s (or more than 5 s): the base delay of 1000 ms
\* became 5000 ms.
C17_FloorRaisedToCap ==
  /\ pc = "seed"
  /\ cfg.WAIT_BETWEEN_MS = 1000
  /\ robots.delay = 5000
  /\ waitBetween = 5000

C19_BackoffFromRetryAfter ==
  (variant # "basic" /\ hist.status \in {429, 503}) =>
     hist.backoff = (IF hist.retryAfter.kind = "int" THEN 1000 * hist.retryAfter.num
                     ELSE 5000)

\* A 429 with Retry-After: 2 was followed by a sleep of 2000 ms and another
\* attempt.
C19_SleptAsTold ==
  /\ pc = "nav"
  /\ attempt = 1
  /\ hist.status = 429
  /\ hist.retryAfter = [kind |-> "int", num |-> 2]
  /\ hist.backoff = 2000

\* Answers for /robots.txt that give no policy: the fetch throws, the status
\* is not OK, the body is empty, the body holds no robots line.
NoPolicyAnswers ==
  { Response("error", <<>>), Response("notok", <<>>), Response("ok", <<>>),
    Response("ok", << RobotsLine("html", <<"/", "private">>),
                      RobotsLine("body", <<"Disallow">>) >>) }

\* C20: when the robots.txt fetch fails, is answered with a non-OK status
\* or cannot be parsed, the policy is the permissive default (no disallow
\* prefix, delay 0), the run goes on, and every robots check passes.
C20_RobotsFailurePermissive ==
  /\ \A r \in NoPolicyAnswers : loadRobots(r) = NoRobots
  /\ hist.lastFail = "robots" => pc = "seed"
  /\ "robots" \in hist.failures =>
        /\ robots = NoRobots
        /\ waitBetween = cfg.WAIT_BETWEEN_MS
        /\ \A u \in SiteUrls \cup visited : ~blockedByRobots(Pathname(u), robots.disallow)

\* After a failed robots.txt fetch the crawl ended with /blog/p1 visited, a
\* page that a served robots.txt disallows.
C20_CrawledAfterRobotsFailure ==
  /\ pc = "done"
  /\ RESPECT_ROBOTS
  /\ "robots" \in hist.failures
  /\ BlogP1 \in visited
  /\ variant = "safe"

InsideRoot(p) ==
  /\ Len(p) > Len(SplitSegments(OUT_DIR))
  /\ SubSeq(p, 1, Len(SplitSegments(OUT_DIR))) = SplitSegments(OUT_DIR)
  /\ \A i \in 1..Len(p) : p[i] # <<"..">>

\* C22: for every visited URL, device label and filename mode the path
\* returned by buildSavePath lies inside the configured output root.
C22_SavePathInsideRoot == pc = "saved" => InsideRoot(captured[1].file)

\* C23: with no seed URL configured the run aborts before any work: no
\* robots fetch, no browser context, no navigation, no manifest write.
C23_NoSeedNoWork ==
  START_URLS = <<>> =>
    /\ pc \in {"start", "aborted"}
    /\ robots = NoRobots /\ waitBetween = cfg.WAIT_BETWEEN_MS
    /\ pageAt = <<>>
    /\ hist.tries = 0 /\ hist.nav = "none" /\ hist.failures = {}
    /\ queue = <<>> /\ visited = {} /\ captured = <<>>
    /\ manifestWrites = 0

C23_AbortedForNoSeed == START_URLS = <<>> /\ pc = "aborted"

\* C24: shouldVisit tries protocol, scope, skip pattern with the sample
\* exception, robots, in that order: the check of a URL that fails the
\* protocol or the scope test returns false and leaves SampleTakenRegistry
\* as it was, whatever its path.
C24_OutOfScopeRegistryKept ==
  [][ (pc = "admit" /\ ~InScope(cur.url, cur.start))
      => (pc' = "rejected" /\ sampleTaken' = sampleTaken) ]_vars

\* A detail page of a tracked category on another host was rejected with
\* the exception on and the category's exception still unused.
C24_OffHostDetailRejected ==
  /\ pc = "rejected"
  /\ SAMPLE_DETAIL_ALLOW
  /\ cur.url = OtherBlogP1
  /\ hitSkip(cur.url)
  /\ ~sampleTaken[BlogCat]

\* C25: a navigation attempt that fails under both wait conditions escalates
\* to the retry loop: while attempts remain the navigation of the same
\* device is tried again.
C25_FailedNavigationRetried ==
  [][ (pc = "nav" /\ variant # "basic" /\ attempt < RETRIES /\ hist'.lastFail = "nav")
      => (pc' = "nav" /\ dev' = dev /\ attempt' = attempt + 1) ]_vars

\* C26: dequeuing a task whose URL is already in VisitedSet changes nothing
\* but the queue: VisitedSet, SampleTakenRegistry, the fingerprint set and
\* the capture list stay, and no admission check, navigation or link harvest
\* happens for it (the loop is at its head again, the pages where they were).
C26_VisitedTaskOnlyDequeued ==
  [][ (pc = "loop" /\ LoopGuard /\ Head(queue).url \in visited)
      => /\ queue' = Tail(queue)
         /\ pc' = "loop"
         /\ UNCHANGED << visited, visitedCount, sampleTaken, seenLayouts, captured, cur, dev,
                         attempt, pageAt, robots, waitBetween, manifestWrites, cfg >>
         /\ hist'.admLog = hist.admLog /\ hist'.sampleQueued = hist.sampleQueued
         /\ hist'.task = hist.task /\ hist'.tries = hist.tries ]_vars

\* A task was discarded because its URL had been visited, with work done
\* before it and tasks still queued behind it.
C26_RevisitDiscarded ==
  /\ pc = "loop"
  /\ hist.dropped = "visited"
  /\ captured # <<>>
  /\ queue # <<>>

\* C27: during the link harvest of one task no link is enqueued once queue
\* length plus |VisitedSet| has reached MAX_PAGES after an enqueue; so one
\* harvest only appends to the queue and raises queue length plus
\* |VisitedSet| to at most max(MAX_PAGES, its value before + 1).
C27_HarvestStopsAtCeiling ==
  [][ pc = "harvest"
      => LET was == Len(queue) + Cardinality(visited)
             now == Len(queue') + Cardinality(visited')
         IN  /\ IsPrefixSeq(queue, queue')
             /\ now <= Max(MAX_PAGES, was + 1)
             /\ Len(queue') >= Len(queue) + 2 => now <= MAX_PAGES ]_vars

\* A harvest has just stopped at the ceiling with an admissible link of the
\* page left out of the queue.
C27_LinkLeftAtCeiling ==
  /\ pc = "loop"
  /\ hist.task.harvested
  /\ queue # <<>>
  /\ queue[Len(queue)].depth = cur.depth + 1
  /\ Len(queue) + Cardinality(visited) = MAX_PAGES
  /\ \E i \in 1..Len(SiteLinks(pageAt[1])) :
        LET abs == normalizeUrl(SiteLinks(pageAt[1])[i], cur.url)
        IN  /\ abs # Null
            /\ abs \notin visited
            /\ \A k \in 1..Len(queue) : queue[k].url # abs
            /\ variant # "basic"
            /\ shouldVisit(abs, cur.start, robots, sampleTaken).ret

\* The wait conditions in the order they are to be tried.
WaitOrder == <<"networkidle", "load", "domcontentloaded", "timeout">>

WaitWorked(e) == << e.idle, e.load, e.dom, e.pause >>

\* C28: waitStable tries network quiescence, full load, DOM ready and the
\* fixed pause in this order, goes to the next only when the one before has
\* failed, returns after the first that succeeds, and raises no error
\* whatever combination of the three load-state waits fails.
C28_WaitStableFallsThrough ==
  \A k \in 1..Len(queue) :
     LET e == queue[k].env
         r == queue[k].got
     IN  /\ \A i \in 1..4 :
               (WaitWorked(e)[i] /\ \A j \in 1..(i - 1) : ~WaitWorked(e)[j])
                 => (r.ret = WaitOrder[i] /\ r.tried = SubSeq(WaitOrder, 1, i))
         /\ e.pause => ~r.threw

\* Both calls of one visit were made; in the second all three load-state
\* waits failed and the call returned after the pause.
C28_ReturnedAfterPause ==
  /\ pc = "images"
  /\ Len(queue) = 2
  /\ queue[2].env = [idle |-> FALSE, load |-> FALSE, dom |-> FALSE, pause |-> TRUE]
  /\ queue[2].got.ret = "timeout"
  /\ ~queue[2].got.threw

\* C29: with a non-zero base delay a pacing sleep is made between any two
\* consecutive device visits, whether the earlier one ended in a capture,
\* in a failure or in a duplicate-layout skip: every visit of the task that
\* another visit followed ended with the sleep (in the revisions with and
\* without the layout check).
C29_PacedBetweenVisits ==
  (waitBetween # 0 /\ variant \in {"safe", "dedup"}) =>
    \A i \in 1..(Len(hist.task.visits) - 1) : hist.task.visits[i].paced

\* The tasks the seeds give.
SeedTasks == [i \in 1..Len(START_URLS) |-> Task(START_URLS[i], START_URLS[i], 0)]

\* C30: a sitemap <loc> entry enters the frontier only if it passes the
\* admission check of crawled links, with the first seed as start URL and
\* depth 0; when the sitemap fetch fails the frontier holds exactly the seed
\* tasks, and the run goes on to the loop.
C30_SitemapEntriesAdmitted ==
  [][ pc = "seed"
      => /\ pc' = "loop"
         /\ IsPrefixSeq(SeedTasks, queue')
         /\ \A k \in (Len(SeedTasks) + 1)..Len(queue') :
               /\ queue'[k].start = START_URLS[1]
               /\ queue'[k].depth = 0
               /\ \E t \in Registries : shouldVisit(queue'[k].url, START_URLS[1], robots, t).ret
         /\ hist'.sitemap \in {"off", "error"} => queue' = SeedTasks ]_vars

\* The sitemap was read to its end: some of its entries are queued behind
\* the seeds and some were left out.
C30_SitemapFiltered ==
  /\ pc = "loop"
  /\ visited = {}
  /\ hist.sitemap = "ok"
  /\ Len(queue) > Len(START_URLS)
  /\ Len(queue) < Len(START_URLS) + 3

\* C31: the frontier is breadth-first: tasks leave the queue at its front in
\* the order they were enqueued (an enqueue only appends), the queue is
\* ordered by depth, and the depths of the tasks visited during a run form
\* a non-decreasing sequence.
C31_BreadthFirst ==
  /\ [](\A i, j \in 1..Len(queue) : i < j => queue[i].depth <= queue[j].depth)
  /\ [][ (pc = "loop" /\ LoopGuard)
          => (queue' = Tail(queue) /\ (cur' # cur => cur' = Head(queue))) ]_vars
  /\ [][ (pc \in {"seed", "harvest"}) => IsPrefixSeq(queue, queue') ]_vars
  /\ [][ cur'.depth >= cur.depth ]_vars

\* A task of depth 1 is visited after two seeds, with tasks still queued.
C31_ChildAfterSeeds ==
  /\ pc = "nav"
  /\ cur.depth = 1
  /\ Len(START_URLS) = 2
  /\ Cardinality(visited) = 3
  /\ queue # <<>>

\* The directory path of a URL, with its trailing slash: the path without
\* its last segment when that segment is a file, the whole path otherwise.
DirectoryOf(u) ==
  LET p    == Pathname(u)
      segs == SplitSegments(p)
  IN  IF segs # <<>> /\ segs[Len(segs)] = IndexHtml
        THEN SubSeq(p, 1, Len(p) - 1)
        ELSE IF p[Len(p)] = "/" THEN p ELSE p \o <<"/">>

\* C32: with path-prefix mode on, a same-host candidate is accepted exactly
\* when its path (with a trailing slash) is prefixed by the directory path
\* of the start URL: every page in the directory of a start file is in
\* scope, a path that only shares a name prefix with the directory is not.
C32_ScopeIsStartDirectory ==
  [][ (pc = "admit" /\ PATH_PREFIX_MODE = "start" /\ cur.url.host = cur.start.host
         /\ ~hitSkip(cur.url))
      => ((pc' = "admitted")
            <=> StartsWith(Pathname(cur.url) \o <<"/">>, DirectoryOf(cur.start))) ]_vars

\* C33: with layout deduplication on and several devices, the first URL
\* visited in the run (no fingerprint of another URL exists yet) yields a
\* capture record on every device whose visit did not fail: a fingerprint
\* recorded on one device never suppresses the same URL on another device.
C33_FirstUrlCapturedOnEveryDevice ==
  (variant = "dedup" /\ LAYOUT_DEDUP /\ Len(contexts) >= 2 /\ hist.prev.url = Null) =>
     \A i \in 1..Len(hist.task.visits) :
        hist.task.visits[i].result # "failed" => hist.task.visits[i].result = "captured"

\* The URLs the a[href] attributes of the page served for u stand for.
LinksOf(u) == { normalizeUrl(SiteLinks(u)[i], u) : i \in 1..Len(SiteLinks(u)) }

\* C34: every link enqueued while task T is processed was extracted from
\* the page loaded for T's own URL, also when the first device's navigation
\* to T's URL failed.
C34_ChildrenComeFromOwnPage ==
  [][ pc = "harvest"
      => \A k \in (Len(queue) + 1)..Len(queue') : queue'[k].url \in LinksOf(cur.url) ]_vars

\* C35: when the image wait of a device visit ends by timeout (everything
\* before it having succeeded), the visit still goes on to the screenshot
\* and produces a capture record if the screenshot succeeds.
C35_ImageTimeoutStillCaptured ==
  variant \in {"safe", "stable"} =>
     \A i \in 1..Len(hist.task.visits) :
        LET v == hist.task.visits[i]
        IN  (v.nav # "fail" /\ v.env.quiet1 /\ v.env.scroll /\ v.env.quiet2
               /\ ~v.env.images /\ v.env.shot)
              => v.result = "captured"

\* C36: if the run ends with |VisitedSet| < MAX_PAGES, every admissible URL
\* linked from a visited page of depth below MAX_DEPTH has been visited
\* (stated for the seeds, the pages of depth 0, in runs where every page
\* loads and gives its links).
C36_NoAdmissibleLinkLeftOut ==
  (pc = "done" /\ variant = "safe" /\ cfg.faults = {} /\ Len(contexts) >= 1
     /\ MAX_DEPTH >= 1 /\ Cardinality(visited) < MAX_PAGES) =>
     \A i \in 1..Len(START_URLS) :
        START_URLS[i] \in visited =>
          \A u \in LinksOf(START_URLS[i]) \ {Null} :
             shouldVisit(u, START_URLS[i], robots, sampleTaken).ret => u \in visited

\* C37: two capture records with different (url, device) pairs never have
\* the same file path, in flat and in tree filename mode.
C37_DistinctRecordsDistinctFiles ==
  \A i, j \in 1..Len(captured) :
     (captured[i].url # captured[j].url \/ captured[i].device # captured[j].device)
       => captured[i].file # captured[j].file

====
